---- MODULE Spec2Model ----
(***************************************************************************)
(* Verification model of the chiswick-albion-website crawl / mirror        *)
(* scripts.  The scripts are independent programs; each one is modelled as *)
(* its own specification over its own group of variables, the groups of    *)
(* the other scripts staying at their idle values.                         *)
(*                                                                         *)
(*   SpecDiscover       src/url_discover.js            discoverUrls        *)
(*   SpecProber         src/unnamed/part_000, part_001 section probers     *)
(*   SpecPaginated      src/url_tester.js              testPaginatedUrls   *)
(*   SpecDownloader     src/robust_downloader.js       RobustDownloader    *)
(*   SpecComprehensive  src/comprehensive_url_discovery.js                 *)
(*   SpecFullTester     src/full_url_tester.js         testAllUrls         *)
(***************************************************************************)
EXTENDS FiniteSets, Integers, Sequences, TLC

VARIABLES
    \* ---- url_discover.js : discoverUrls
    startUrls,        \* config.startUrls, the seed list
    urlQueue,         \* urlQueue (array used as FIFO queue)
    visitedUrls,      \* visitedUrls (Set)
    discoveredUrls,   \* discoveredUrls (Set, kept in insertion order)
    savedUrls,        \* content of config.outputFile, <<>> before the first write
    dPc,              \* "loop" | "done"
    gotoLog,          \* history: the URLs handed to page.goto, in order
    firstQueued,      \* history: the URLs in the order they first entered urlQueue
    lastLinks         \* history: links of the latest fetch, Errored if it threw

discVars == <<startUrls, urlQueue, visitedUrls, discoveredUrls, savedUrls,
              dPc, gotoLog, firstQueued, lastLinks>>

VARIABLES
    \* ---- unnamed/part_000 testMissingSections, part_001 testTargetedSections
    pScript,              \* which of the two scripts runs: "part_000" | "part_001"
    pPc,                  \* "idle" | "base" | "pages" | "endSection" | "final" | "done"
    pSec,                 \* index of the section of the for-of loop
    pageNum,              \* pageNum of the inner loop: the next page to probe
    consecutiveFailures,  \* consecutiveFailures
    foundAnyPages,        \* foundAnyPages
    sectionData,          \* sectionData: [sectionName, pages, totalPages]
    foundSections,        \* foundSections
    pAllUrls,             \* part_001 only: allUrls
    results,              \* results: sectionsWithPages, totalPagesFound, sectionsProcessed
    pSaved,               \* snapshots written to config.outputFile, oldest first
    probeLog              \* history: success of each pageN.html probe of this section

probVars == <<pScript, pPc, pSec, pageNum, consecutiveFailures, foundAnyPages,
              sectionData, foundSections, pAllUrls, results, pSaved, probeLog>>

VARIABLES
    \* ---- url_tester.js : testPaginatedUrls (second script of the file)
    gPc,                  \* "idle" | "pages" | "endSection" | "final" | "done"
    gSec,                 \* index of baseUrl in workingBaseUrls
    gPageNum,             \* pageNum
    sectionResults,       \* sectionResults: [pages, totalPages]
    gAllUrls,             \* allUrls
    gResults,             \* results: sectionsProcessed, totalUrlsTested, totalWorkingUrls
    gSaved,               \* snapshots written to config.outputFile, oldest first
    gProbeLog             \* history: "ok" | "404" | "other" per probe of this section

pagVars == <<gPc, gSec, gPageNum, sectionResults, gAllUrls, gResults, gSaved,
             gProbeLog>>

VARIABLES
    \* ---- robust_downloader.js : RobustDownloader
    urlList,              \* urls of run(): the list returned by loadUrls
    rIdx,                 \* position of run's for-of loop in urlList
    attempt,              \* attempt parameter of the downloadPage call in progress
    rPc,                  \* "idle" | "page" | "final" | "done"
    rFailedUrls,          \* this.failedUrls
    rStats,               \* this.stats: totalUrls, downloaded, failed, images
    downloadedUrls,       \* this.downloadedUrls
    imageMapping,         \* this.imageMapping: originalSrc -> local path
    pageFiles,            \* pages directory: file name -> written markup
    imageFiles,           \* assets/images directory: the files written
    rSaved,               \* download_progress.json: <<>> or <<progressData>>
    rAttempts,            \* history: page navigations per list entry
    rOutcome,             \* history: "pending" | "ok" | "failed" per list entry
    lastDl                \* history: the last page downloaded and its images

dlVars == <<urlList, rIdx, attempt, rPc, rFailedUrls, rStats, downloadedUrls,
            imageMapping, pageFiles, imageFiles, rSaved, rAttempts, rOutcome,
            lastDl>>

VARIABLES
    \* ---- comprehensive_url_discovery.js : ComprehensiveUrlDiscovery
    loadedUrls,           \* urls of existing.workingUrls read at startup ({} if none)
    testedUrls,           \* this.testedUrls
    workingUrls,          \* this.workingUrls (the url of each record)
    cFailedUrls,          \* this.failedUrls (the url of each record)
    cStats,               \* this.stats: totalTested, working, failed
    cSaved,               \* config.outputFile as written by this run: <<>> or <<data>>
    cPhase,               \* discovery phase 1..3
    cItem,                \* position in the phase's candidate list
    cPag,                 \* 0, or the page of testPaginationForSection's loop
    cConsec,              \* consecutiveFailures of testPaginationForSection
    cPc,                  \* "idle" | "call" | "goto" | "ret" | "final" | "done"
    cUrl,                 \* url of the testUrl call whose navigation is in flight
    cRetries,             \* retries of that call
    cResult,              \* value returned to the caller: "working" | "null"
    cGotoLog              \* history: the URLs handed to page.goto, in order

cudVars == <<loadedUrls, testedUrls, workingUrls, cFailedUrls, cStats, cSaved,
             cPhase, cItem, cPag, cConsec, cPc, cUrl, cRetries, cResult, cGotoLog>>

VARIABLES
    \* ---- full_url_tester.js : testAllUrls
    fMappings,            \* urlMappings.length, the mappings are numbered 1..fMappings
    fPc,                  \* "idle" | "loop" | "done"
    fWorkingUrls,         \* workingUrls (array)
    fFailedUrls,          \* failedUrls (array)
    fResults,             \* results {tested, working, failed}
    fFile,                \* content of all_working_urls.json, <<>> while not written
    fSaves                \* number of saveProgress calls so far

ftVars == <<fMappings, fPc, fWorkingUrls, fFailedUrls, fResults, fFile, fSaves>>

VARIABLES
    \* ---- the testUrl liveness probes, applied to one fetch outcome
    tuIn,                 \* what page.goto, page.title and page.evaluate produce
    tuOut                 \* script -> the object its testUrl returned, so far

tuVars == <<tuIn, tuOut>>

VARIABLES
    \* ---- url_discover.js : the link extraction of one page (page.evaluate)
    lkDoc,                \* currentUrl of the page being processed
    lkAnchors,            \* the <a> elements of the page: [kind, target] each
    lkNorm,               \* per anchor: the string left by the first map, or Null
    lkLinks,              \* links, the array page.evaluate returns
    lkPc                  \* "idle" | "page" | "done"

lkVars == <<lkDoc, lkAnchors, lkNorm, lkLinks, lkPc>>

VARIABLES
    \* ---- robust_downloader.js : one call of generateFilename
    fnSection,            \* sectionName, a sequence of characters
    fnPage,               \* pageNumber
    fnOut,                \* the returned string, <<>> before the call
    fnPc                  \* "idle" | "call" | "done"

fnVars == <<fnSection, fnPage, fnOut, fnPc>>

VARIABLES
    \* ---- browser_clone.js : main and downloadPage
    bcPages,              \* pages, the array loadPageMapping returns
    bcIdx,                \* i of main's for loop, counted from 1
    bcPc,                 \* "idle" | "ask" | "page" | "done"
    bcPageFiles,          \* local file name -> page whose content was written
    bcImageFiles,         \* image file name -> source URL whose bytes it holds
    bcMappingFile,        \* image_mapping.json: [written, map], <<>> while idle
    bcSuccess,            \* successCount
    bcFail,               \* failCount
    bcLog                 \* history: one record per call of downloadPage

bcVars == <<bcPages, bcIdx, bcPc, bcPageFiles, bcImageFiles, bcMappingFile,
            bcSuccess, bcFail, bcLog>>

VARIABLES
    \* ---- the navigations of the one page a script drives
    navScript,            \* the script that runs
    navPc,                \* "idle" | "ready" | "awaiting" | "retryWait" | "done"
    navInFlight,          \* page.goto promises that have not settled
    navBudget,            \* navigations the script's loops have yet to start
    navKind,              \* "page" | "image": what the latest goto fetches
    navRetries,           \* retries of testUrl, attempt - 1 of downloadPage
    navTested             \* comprehensive: testedUrls.has(url) of the url in hand

navVars == <<navScript, navPc, navInFlight, navBudget, navKind, navRetries, navTested>>

VARIABLES
    \* ---- the files read at startup
    stScript,             \* "comprehensive_url_discovery" | "robust_downloader"
    stPc,                 \* "idle" | "start" | "phases" | "downloading" | "noUrls"
    stFile1,              \* config.outputFile, or config.urlsFile
    stFile2,              \* config.fallbackUrlsFile
    stTested,             \* ComprehensiveUrlDiscovery: testedUrls after the load
    stUrls,               \* RobustDownloader: the list loadUrls returned
    stTotalUrls           \* RobustDownloader: stats.totalUrls

stVars == <<stScript, stPc, stFile1, stFile2, stTested, stUrls, stTotalUrls>>

VARIABLES
    \* ---- complete-chiswick-site/download_images.js
    diPc,                 \* "idle" | "attempt" | "pending" | "sleep" | "done"
    diIdx,                \* the image downloadImage is called for, from 1
    diI,                  \* i of downloadImage's for loop
    diTries,              \* passes through the try block for this image
    diLog                 \* per image: [tries, requested, result]

diVars == <<diPc, diIdx, diI, diTries, diLog>>

VARIABLES
    \* ---- complete-chiswick-site/download_images.js : downloadMissingImages
    btImages,             \* missingImages, as [dir, base] of each image
    btPc,                 \* "idle" | "batch" | "await" | "done" | "aborted"
    btI,                  \* i of the batch loop, counted from 1
    btState,              \* per image: "waiting" | "inflight" | "ok" | "failed"
    btFiles               \* path -> absent | empty | the image written to it

btVars == <<btImages, btPc, btI, btState, btFiles>>

VARIABLES
    \* ---- complete-chiswick-site/compare_sites.js : loadPageWithRetry
    lpPc,                 \* "idle" | "attempt" | "delay" | "done"
    lpCall,               \* the call of loadPageWithRetry in hand, from 1
    lpI,                  \* i of the for loop
    lpEvents,             \* this call so far: "ok" | "fail" | "sleep"
    lpLog                 \* per finished call: [events, result]

lpVars == <<lpPc, lpCall, lpI, lpEvents, lpLog>>

VARIABLES
    \* ---- the site the probing scripts run against
    siteLast,             \* answer class of the last probed URL, "none" at start
    siteFlips             \* changes of answer class along the probed URLs

siteVars == <<siteLast, siteFlips>>

vars == <<discVars, probVars, pagVars, dlVars, cudVars, ftVars, tuVars, lkVars, fnVars, bcVars, navVars, stVars, diVars, btVars, lpVars, siteVars>>

(***************************************************************************)
(* Idle values: the state of a script that is not the one being run.       *)
(***************************************************************************)
ProbIdle ==
    /\ pScript = "none"
    /\ pPc = "idle"
    /\ pSec = 0
    /\ pageNum = 0
    /\ consecutiveFailures = 0
    /\ foundAnyPages = FALSE
    /\ sectionData = <<>>
    /\ foundSections = <<>>
    /\ pAllUrls = <<>>
    /\ results = <<>>
    /\ pSaved = <<>>
    /\ probeLog = <<>>

PagIdle ==
    /\ gPc = "idle"
    /\ gSec = 0
    /\ gPageNum = 0
    /\ sectionResults = <<>>
    /\ gAllUrls = <<>>
    /\ gResults = <<>>
    /\ gSaved = <<>>
    /\ gProbeLog = <<>>

DlIdle ==
    /\ urlList = <<>>
    /\ rIdx = 0
    /\ attempt = 0
    /\ rPc = "idle"
    /\ rFailedUrls = <<>>
    /\ rStats = <<>>
    /\ downloadedUrls = {}
    /\ imageMapping = <<>>
    /\ pageFiles = <<>>
    /\ imageFiles = {}
    /\ rSaved = <<>>
    /\ rAttempts = <<>>
    /\ rOutcome = <<>>
    /\ lastDl = <<>>

CudIdle ==
    /\ loadedUrls = {}
    /\ testedUrls = {}
    /\ workingUrls = <<>>
    /\ cFailedUrls = <<>>
    /\ cStats = <<>>
    /\ cSaved = <<>>
    /\ cPhase = 0
    /\ cItem = 0
    /\ cPag = 0
    /\ cConsec = 0
    /\ cPc = "idle"
    /\ cUrl = <<>>
    /\ cRetries = 0
    /\ cResult = "none"
    /\ cGotoLog = <<>>

FtIdle ==
    /\ fMappings = 0
    /\ fPc = "idle"
    /\ fWorkingUrls = <<>>
    /\ fFailedUrls = <<>>
    /\ fResults = [tested |-> 0, working |-> 0, failed |-> 0]
    /\ fFile = <<>>
    /\ fSaves = 0

TuIdle ==
    /\ tuIn = <<>>
    /\ tuOut = <<>>

LkIdle ==
    /\ lkDoc = <<>>
    /\ lkAnchors = <<>>
    /\ lkNorm = <<>>
    /\ lkLinks = <<>>
    /\ lkPc = "idle"

FnIdle ==
    /\ fnSection = <<>>
    /\ fnPage = 0
    /\ fnOut = <<>>
    /\ fnPc = "idle"

BcIdle ==
    /\ bcPages = <<>>
    /\ bcIdx = 0
    /\ bcPc = "idle"
    /\ bcPageFiles = <<>>
    /\ bcImageFiles = <<>>
    /\ bcMappingFile = <<>>
    /\ bcSuccess = 0
    /\ bcFail = 0
    /\ bcLog = <<>>

NavIdle ==
    /\ navScript = "none"
    /\ navPc = "idle"
    /\ navInFlight = 0
    /\ navBudget = 0
    /\ navKind = "page"
    /\ navRetries = 0
    /\ navTested = FALSE

StIdle ==
    /\ stScript = "none"
    /\ stPc = "idle"
    /\ stFile1 = <<>>
    /\ stFile2 = <<>>
    /\ stTested = {}
    /\ stUrls = <<>>
    /\ stTotalUrls = 0

DiIdle ==
    /\ diPc = "idle"
    /\ diIdx = 0
    /\ diI = 0
    /\ diTries = 0
    /\ diLog = <<>>

BtIdle ==
    /\ btImages = <<>>
    /\ btPc = "idle"
    /\ btI = 0
    /\ btState = <<>>
    /\ btFiles = <<>>

LpIdle ==
    /\ lpPc = "idle"
    /\ lpCall = 0
    /\ lpI = 0
    /\ lpEvents = <<>>
    /\ lpLog = <<>>

SiteIdle ==
    /\ siteLast = "none"
    /\ siteFlips = 0

DiscIdle ==
    /\ startUrls = <<>>
    /\ urlQueue = <<>>
    /\ visitedUrls = {}
    /\ discoveredUrls = <<>>
    /\ savedUrls = <<>>
    /\ dPc = "idle"
    /\ gotoLog = <<>>
    /\ firstQueued = <<>>
    /\ lastLinks = <<>>

\* the groups each script leaves alone
discOthers == <<probVars, pagVars, dlVars, cudVars, ftVars, tuVars, lkVars, fnVars, bcVars, navVars, stVars, diVars, btVars, lpVars, siteVars>>
probOthers == <<discVars, pagVars, dlVars, cudVars, ftVars, tuVars, lkVars, fnVars, bcVars, navVars, stVars, diVars, btVars, lpVars>>
pagOthers == <<discVars, probVars, dlVars, cudVars, ftVars, tuVars, lkVars, fnVars, bcVars, navVars, stVars, diVars, btVars, lpVars>>
dlOthers == <<discVars, probVars, pagVars, cudVars, ftVars, tuVars, lkVars, fnVars, bcVars, navVars, stVars, diVars, btVars, lpVars, siteVars>>
cudOthers == <<discVars, probVars, pagVars, dlVars, ftVars, tuVars, lkVars, fnVars, bcVars, navVars, stVars, diVars, btVars, lpVars>>
ftOthers == <<discVars, probVars, pagVars, dlVars, cudVars, tuVars, lkVars, fnVars, bcVars, navVars, stVars, diVars, btVars, lpVars>>
tuOthers == <<discVars, probVars, pagVars, dlVars, cudVars, ftVars, lkVars, fnVars, bcVars, navVars, stVars, diVars, btVars, lpVars, siteVars>>
lkOthers == <<discVars, probVars, pagVars, dlVars, cudVars, ftVars, tuVars, fnVars, bcVars, navVars, stVars, diVars, btVars, lpVars, siteVars>>
fnOthers == <<discVars, probVars, pagVars, dlVars, cudVars, ftVars, tuVars, lkVars, bcVars, navVars, stVars, diVars, btVars, lpVars, siteVars>>
bcOthers == <<discVars, probVars, pagVars, dlVars, cudVars, ftVars, tuVars, lkVars, fnVars, navVars, stVars, diVars, btVars, lpVars, siteVars>>
navOthers == <<discVars, probVars, pagVars, dlVars, cudVars, ftVars, tuVars, lkVars, fnVars, bcVars, stVars, diVars, btVars, lpVars, siteVars>>
stOthers == <<discVars, probVars, pagVars, dlVars, cudVars, ftVars, tuVars, lkVars, fnVars, bcVars, navVars, diVars, btVars, lpVars, siteVars>>
diOthers == <<discVars, probVars, pagVars, dlVars, cudVars, ftVars, tuVars, lkVars, fnVars, bcVars, navVars, stVars, btVars, lpVars, siteVars>>
btOthers == <<discVars, probVars, pagVars, dlVars, cudVars, ftVars, tuVars, lkVars, fnVars, bcVars, navVars, stVars, diVars, lpVars, siteVars>>
lpOthers == <<discVars, probVars, pagVars, dlVars, cudVars, ftVars, tuVars, lkVars, fnVars, bcVars, navVars, stVars, diVars, btVars, siteVars>>

DiscOthersIdle == ProbIdle /\ PagIdle /\ DlIdle /\ CudIdle /\ FtIdle /\ TuIdle /\ LkIdle /\ FnIdle /\ BcIdle /\ NavIdle /\ StIdle /\ DiIdle /\ BtIdle /\ LpIdle /\ SiteIdle
ProbOthersIdle == DiscIdle /\ PagIdle /\ DlIdle /\ CudIdle /\ FtIdle /\ TuIdle /\ LkIdle /\ FnIdle /\ BcIdle /\ NavIdle /\ StIdle /\ DiIdle /\ BtIdle /\ LpIdle
PagOthersIdle == DiscIdle /\ ProbIdle /\ DlIdle /\ CudIdle /\ FtIdle /\ TuIdle /\ LkIdle /\ FnIdle /\ BcIdle /\ NavIdle /\ StIdle /\ DiIdle /\ BtIdle /\ LpIdle
DlOthersIdle == DiscIdle /\ ProbIdle /\ PagIdle /\ CudIdle /\ FtIdle /\ TuIdle /\ LkIdle /\ FnIdle /\ BcIdle /\ NavIdle /\ StIdle /\ DiIdle /\ BtIdle /\ LpIdle /\ SiteIdle
CudOthersIdle == DiscIdle /\ ProbIdle /\ PagIdle /\ DlIdle /\ FtIdle /\ TuIdle /\ LkIdle /\ FnIdle /\ BcIdle /\ NavIdle /\ StIdle /\ DiIdle /\ BtIdle /\ LpIdle
FtOthersIdle == DiscIdle /\ ProbIdle /\ PagIdle /\ DlIdle /\ CudIdle /\ TuIdle /\ LkIdle /\ FnIdle /\ BcIdle /\ NavIdle /\ StIdle /\ DiIdle /\ BtIdle /\ LpIdle
TuOthersIdle == DiscIdle /\ ProbIdle /\ PagIdle /\ DlIdle /\ CudIdle /\ FtIdle /\ LkIdle /\ FnIdle /\ BcIdle /\ NavIdle /\ StIdle /\ DiIdle /\ BtIdle /\ LpIdle /\ SiteIdle
LkOthersIdle == DiscIdle /\ ProbIdle /\ PagIdle /\ DlIdle /\ CudIdle /\ FtIdle /\ TuIdle /\ FnIdle /\ BcIdle /\ NavIdle /\ StIdle /\ DiIdle /\ BtIdle /\ LpIdle /\ SiteIdle
FnOthersIdle == DiscIdle /\ ProbIdle /\ PagIdle /\ DlIdle /\ CudIdle /\ FtIdle /\ TuIdle /\ LkIdle /\ BcIdle /\ NavIdle /\ StIdle /\ DiIdle /\ BtIdle /\ LpIdle /\ SiteIdle
BcOthersIdle == DiscIdle /\ ProbIdle /\ PagIdle /\ DlIdle /\ CudIdle /\ FtIdle /\ TuIdle /\ LkIdle /\ FnIdle /\ NavIdle /\ StIdle /\ DiIdle /\ BtIdle /\ LpIdle /\ SiteIdle
NavOthersIdle == DiscIdle /\ ProbIdle /\ PagIdle /\ DlIdle /\ CudIdle /\ FtIdle /\ TuIdle /\ LkIdle /\ FnIdle /\ BcIdle /\ StIdle /\ DiIdle /\ BtIdle /\ LpIdle /\ SiteIdle
StOthersIdle == DiscIdle /\ ProbIdle /\ PagIdle /\ DlIdle /\ CudIdle /\ FtIdle /\ TuIdle /\ LkIdle /\ FnIdle /\ BcIdle /\ NavIdle /\ DiIdle /\ BtIdle /\ LpIdle /\ SiteIdle
DiOthersIdle == DiscIdle /\ ProbIdle /\ PagIdle /\ DlIdle /\ CudIdle /\ FtIdle /\ TuIdle /\ LkIdle /\ FnIdle /\ BcIdle /\ NavIdle /\ StIdle /\ BtIdle /\ LpIdle /\ SiteIdle
BtOthersIdle == DiscIdle /\ ProbIdle /\ PagIdle /\ DlIdle /\ CudIdle /\ FtIdle /\ TuIdle /\ LkIdle /\ FnIdle /\ BcIdle /\ NavIdle /\ StIdle /\ DiIdle /\ LpIdle /\ SiteIdle
LpOthersIdle == DiscIdle /\ ProbIdle /\ PagIdle /\ DlIdle /\ CudIdle /\ FtIdle /\ TuIdle /\ LkIdle /\ FnIdle /\ BcIdle /\ NavIdle /\ StIdle /\ DiIdle /\ BtIdle /\ SiteIdle

(***************************************************************************)
(* Generic helpers                                                         *)
(***************************************************************************)
Range(s) == {s[i] : i \in 1..Len(s)}

Includes(s, x) == x \in Range(s)

NoDup(s) == \A i, j \in 1..Len(s) : i # j => s[i] # s[j]

IsPrefix(s, t) == Len(s) <= Len(t) /\ \A i \in 1..Len(s) : s[i] = t[i]

SeqsUpTo(S, n) == UNION {[1..k -> S] : k \in 0..n}

\* s followed by x unless x is already an element (insertion-ordered Set.add)
AddOnce(s, x) == IF Includes(s, x) THEN s ELSE Append(s, x)

(***************************************************************************)
(* url_discover.js                                                         *)
(***************************************************************************)
NumUrls == 3      \* size of the site: base-relative URLs are 1..NumUrls
MaxSeeds == 2     \* longest seed list
MaxLinks == 2     \* most links extracted from one page

Urls == 1..NumUrls

\* line 34: a dequeued URL that was already visited is skipped
\* what lastLinks holds after a fetch that raised an error (0 is no URL)
Errored == <<0>>

LoopGoesOn_moreThanOne(q) == Len(q) > 1

\* line 30: while (urlQueue.length > 0)
LoopGoesOn(q) == Len(q) > 0

ShouldSkip_never(url) == FALSE

ShouldSkip(url) == url \in visitedUrls

\* line 107: urlQueue.push(link)
QueuePush_front(q, link) == <<link>> \o q

QueuePush(q, link) == Append(q, link)

\* line 106: a link is new when neither visited nor already queued
IsNewLink_unvisited(link, q, visited) == link \notin visited

IsNewLink(link, q, visited) == link \notin visited /\ ~Includes(q, link)

\* lines 105-110: the loop over the links of one page; st = [q, disc, fq]
RECURSIVE AddLinks(_, _, _)
AddLinks(links, st, visited) ==
    IF links = <<>> THEN st
    ELSE LET link == Head(links)
             st2 == IF IsNewLink(link, st.q, visited)
                    THEN [q    |-> QueuePush(st.q, link),
                          disc |-> AddOnce(st.disc, link),
                          fq   |-> AddOnce(st.fq, link)]
                    ELSE st
         IN AddLinks(Tail(links), st2, visited)

\* line 120: discoveredUrls.size % 10
DiscSaveEvery == 10

\* lines 119-122: periodic save, and saveProgress (lines 131-138)
PeriodicSave(disc, saved) ==
    IF Len(disc) % DiscSaveEvery = 0 /\ Len(disc) > 0 THEN disc ELSE saved

RECURSIVE Dedup(_)
Dedup(s) == IF s = <<>> THEN <<>>
            ELSE LET d == Dedup(SubSeq(s, 1, Len(s) - 1))
                 IN AddOnce(d, s[Len(s)])

DiscInit ==
    /\ DiscOthersIdle
    /\ startUrls \in SeqsUpTo(Urls, MaxSeeds) \ {<<>>}
    /\ urlQueue = startUrls
    /\ visitedUrls = {}
    /\ discoveredUrls = <<>>
    /\ savedUrls = <<>>
    /\ dPc = "loop"
    /\ gotoLog = <<>>
    /\ firstQueued = Dedup(startUrls)
    /\ lastLinks = <<>>

\* lines 30-36: the dequeued URL was visited before: continue
DiscSkipVisited ==
    /\ dPc = "loop"
    /\ LoopGoesOn(urlQueue)
    /\ ShouldSkip(Head(urlQueue))
    /\ urlQueue' = Tail(urlQueue)
    /\ UNCHANGED <<startUrls, visitedUrls, discoveredUrls, savedUrls, dPc,
                   gotoLog, firstQueued, lastLinks>>
    /\ UNCHANGED discOthers

\* lines 30-122: one iteration whose page.goto and evaluate succeed; links is
\* the list the page's link extraction returns (already base-relative)
DiscProcessPage ==
    /\ dPc = "loop"
    /\ LoopGoesOn(urlQueue)
    /\ ~ShouldSkip(Head(urlQueue))
    /\ \E links \in SeqsUpTo(Urls, MaxLinks) :
         LET currentUrl == Head(urlQueue)
             visited == visitedUrls \cup {currentUrl}
             st == AddLinks(links,
                            [q |-> Tail(urlQueue), disc |-> discoveredUrls,
                             fq |-> firstQueued],
                            visited)
         IN /\ visitedUrls' = visited
            /\ gotoLog' = Append(gotoLog, currentUrl)
            /\ urlQueue' = st.q
            /\ discoveredUrls' = st.disc
            /\ firstQueued' = st.fq
            /\ lastLinks' = links
            /\ savedUrls' = PeriodicSave(st.disc, savedUrls)
    /\ UNCHANGED <<startUrls, dPc>>
    /\ UNCHANGED discOthers

\* lines 30-46, 115-122: one iteration whose navigation throws
DiscProcessError ==
    /\ dPc = "loop"
    /\ LoopGoesOn(urlQueue)
    /\ ~ShouldSkip(Head(urlQueue))
    /\ visitedUrls' = visitedUrls \cup {Head(urlQueue)}
    /\ gotoLog' = Append(gotoLog, Head(urlQueue))
    /\ urlQueue' = Tail(urlQueue)
    /\ savedUrls' = PeriodicSave(discoveredUrls, savedUrls)
    /\ lastLinks' = Errored
    /\ UNCHANGED <<startUrls, discoveredUrls, dPc, firstQueued>>
    /\ UNCHANGED discOthers

\* lines 125-128: the queue is empty: final save
DiscFinish ==
    /\ dPc = "loop"
    /\ ~LoopGoesOn(urlQueue)
    /\ savedUrls' = discoveredUrls
    /\ dPc' = "done"
    /\ UNCHANGED <<startUrls, urlQueue, visitedUrls, discoveredUrls, gotoLog,
                   firstQueued, lastLinks>>
    /\ UNCHANGED discOthers

DiscNext == DiscSkipVisited \/ DiscProcessPage \/ DiscProcessError \/ DiscFinish

SpecDiscover == DiscInit /\ [][DiscNext]_vars

\* C1: no base-relative URL is handed to page.goto more than once in a run,
\* for every seed list (duplicates allowed) and every link graph.
C1_AtMostOnceGoto == NoDup(gotoLog)

\* a finished run with a duplicated seed whose pages link on to two more URLs
C1_Witness ==
    /\ dPc = "done"
    /\ startUrls = <<1, 1>>
    /\ gotoLog = <<1, 2, 3>>

\* C2: URLs are fetched in the order in which they were first placed on the
\* queue; with seeds [A, B] where fetching A discovers C the order is A, B, C.
C2_FifoOrder ==
    /\ IsPrefix(gotoLog, firstQueued)
    /\ dPc = "done" => gotoLog = firstQueued

\* seeds [1, 2], page 1 links to the new URL 3: fetched 1, 2, 3
C2_Witness ==
    /\ startUrls = <<1, 2>>
    /\ gotoLog = <<1, 2, 3>>
    /\ discoveredUrls = <<3>>

(***************************************************************************)
(* Liveness probe shared by the testers: testUrl(page, url)                *)
(***************************************************************************)
\* what one page.goto, page.title and page.evaluate can produce
GotoThrew == [threw |-> TRUE, hasResponse |-> FALSE, status |-> "", title |-> "",
              bodyLen |-> 0]

GotoNoResponse == [threw |-> FALSE, hasResponse |-> FALSE, status |-> "",
                   title |-> "", bodyLen |-> 0]

GotoStatus(st, ti, len) == [threw |-> FALSE, hasResponse |-> TRUE, status |-> st,
                            title |-> ti, bodyLen |-> len]

\* the fetch outcomes the probers are run against
ProbeOutcomes == {GotoThrew,
                  GotoStatus("404", "Not Found", 9),
                  GotoStatus("200", "Untitled", 0),
                  GotoStatus("200", "Club Honours", 120)}

\* part_000 lines 24-46, part_001 lines 19-41, url_tester.js lines 189-211
TestUrl(o) ==
    IF o.threw
    THEN [success |-> FALSE, status |-> "undefined", error |-> TRUE,
          title |-> "", contentLength |-> 0]
    ELSE IF o.hasResponse /\ o.status = "200"
              /\ (o.bodyLen > 5 \/ (o.title # "" /\ o.title # "Untitled"))
         THEN [success |-> TRUE, status |-> "undefined", error |-> FALSE,
               title |-> o.title, contentLength |-> o.bodyLen]
         ELSE [success |-> FALSE,
               status |-> IF o.hasResponse THEN o.status ELSE "No response",
               error |-> FALSE, title |-> "", contentLength |-> 0]

(***************************************************************************)
(* The site family: along the sequence of probed URLs the class of the     *)
(* site's answer changes at most MaxFlips times.                           *)
(***************************************************************************)
MaxFlips == 2      \* changes met by the section probers and testPaginatedUrls
CudMaxFlips == 1   \* changes met by ComprehensiveUrlDiscovery

SiteAllows(class, budget) ==
    \/ siteLast = "none"
    \/ siteLast = class
    \/ siteFlips < budget

SiteStep(class) ==
    /\ siteLast' = class
    /\ siteFlips' = IF siteLast = "none" \/ siteLast = class
                    THEN siteFlips ELSE siteFlips + 1

(***************************************************************************)
(* unnamed/part_000 (testMissingSections), unnamed/part_001                *)
(* (testTargetedSections)                                                  *)
(***************************************************************************)
NumSections == 1   \* sections in config.potentialSections / config.knownSections

\* part_000 line 8, part_001 line 8: config.maxPagesToTest
MaxPagesToTest == IF pScript = "part_001" THEN 30 ELSE 25

\* part_000 line 99, part_001 line 126
StopAfterFound_late(found, failures) == found /\ failures >= 6

StopAfterFound(found, failures) == found /\ failures >= 5

\* part_000 line 106 (10), part_001 line 133 (8)
StopNeverFound(found, failures) ==
    ~found /\ failures >= (IF pScript = "part_001" THEN 8 ELSE 10)

\* answer class of a probe result for the site family
Liveness(r) == IF r.success THEN "live" ELSE "dead"

\* part_000 lines 65-69, part_001 lines 61-66
NewSectionData(sec) == [sectionName |-> sec, pages |-> <<>>, totalPages |-> 0]

PageData(n, r) == [pageNumber |-> n, title |-> r.title,
                   contentLength |-> r.contentLength]

FlatPage(sec, pd) == [sectionName |-> sec, pageNumber |-> pd.pageNumber,
                      title |-> pd.title, contentLength |-> pd.contentLength]

\* part_000 lines 141-149: allPages rebuilt from foundSections at every save
RECURSIVE FlattenSections(_)
FlattenSections(secs) ==
    IF secs = <<>> THEN <<>>
    ELSE [i \in 1..Len(Head(secs).pages) |->
             FlatPage(Head(secs).sectionName, Head(secs).pages[i])]
         \o FlattenSections(Tail(secs))

\* part_000 lines 140-164, part_001 lines 170-184: saveProgress
Snapshot(found, all, res) ==
    [summary |-> res, sections |-> found,
     flat |-> IF pScript = "part_001" THEN all ELSE FlattenSections(found)]

ProbInit ==
    /\ ProbOthersIdle
    /\ pScript \in {"part_000", "part_001"}
    /\ pPc = IF pScript = "part_001" THEN "base" ELSE "pages"
    /\ pSec = 1
    /\ pageNum = 1
    /\ consecutiveFailures = 0
    /\ foundAnyPages = FALSE
    /\ sectionData = NewSectionData(1)
    /\ foundSections = <<>>
    /\ pAllUrls = <<>>
    /\ results = [sectionsWithPages |-> 0, totalPagesFound |-> 0,
                  sectionsProcessed |-> 0]
    /\ pSaved = <<>>
    /\ probeLog = <<>>
    /\ SiteIdle

\* part_001 lines 68-93: the probe of the section's base directory URL
ProbBase ==
    /\ pPc = "base"
    /\ \E o \in ProbeOutcomes :
         LET r == TestUrl(o)
             pd == PageData(0, r)
         IN /\ SiteAllows(Liveness(r), MaxFlips)
            /\ SiteStep(Liveness(r))
            /\ sectionData' =
                 IF r.success
                 THEN [sectionData EXCEPT !.pages = Append(@, pd),
                                          !.totalPages = @ + 1]
                 ELSE sectionData
            /\ pAllUrls' = IF r.success
                           THEN Append(pAllUrls, FlatPage(pSec, pd))
                           ELSE pAllUrls
            /\ foundAnyPages' = r.success
    /\ consecutiveFailures' = 0
    /\ pageNum' = 1
    /\ pPc' = "pages"
    /\ UNCHANGED <<pScript, pSec, foundSections, results, pSaved, probeLog>>
    /\ UNCHANGED probOthers

\* part_000 lines 75-113, part_001 lines 96-140: one iteration of the page loop
ProbPage ==
    /\ pPc = "pages"
    /\ pageNum <= MaxPagesToTest
    /\ \E o \in ProbeOutcomes :
         LET r == TestUrl(o)
             pd == PageData(pageNum, r)
             failures == consecutiveFailures + 1
             stop == ~r.success /\ (StopAfterFound(foundAnyPages, failures)
                                    \/ StopNeverFound(foundAnyPages, failures))
         IN /\ SiteAllows(Liveness(r), MaxFlips)
            /\ SiteStep(Liveness(r))
            /\ probeLog' = Append(probeLog, r.success)
            /\ IF r.success
               THEN /\ sectionData' = [sectionData EXCEPT
                                          !.pages = Append(@, pd),
                                          !.totalPages = @ + 1]
                    /\ pAllUrls' = IF pScript = "part_001"
                                   THEN Append(pAllUrls, FlatPage(pSec, pd))
                                   ELSE pAllUrls
                    /\ results' = [results EXCEPT !.totalPagesFound = @ + 1]
                    /\ foundAnyPages' = TRUE
                    /\ consecutiveFailures' = 0
               ELSE /\ consecutiveFailures' = failures
                    /\ UNCHANGED <<sectionData, pAllUrls, results, foundAnyPages>>
            /\ IF stop \/ pageNum = MaxPagesToTest
               THEN pPc' = "endSection" /\ pageNum' = pageNum
               ELSE pPc' = "pages" /\ pageNum' = pageNum + 1
    /\ UNCHANGED <<pScript, pSec, foundSections, pSaved>>
    /\ UNCHANGED probOthers

\* part_000 lines 115-129, part_001 lines 142-154: the section is closed, the
\* progress saved, and the next section (if any) set up
ProbEndSection ==
    /\ pPc = "endSection"
    /\ LET found == IF foundAnyPages THEN Append(foundSections, sectionData)
                    ELSE foundSections
           res == [results EXCEPT
                     !.sectionsWithPages = IF foundAnyPages THEN @ + 1 ELSE @,
                     !.sectionsProcessed = @ + 1]
           save == pScript = "part_001" \/ res.sectionsProcessed % 10 = 0
       IN /\ foundSections' = found
          /\ results' = res
          /\ pSaved' = IF save THEN Append(pSaved, Snapshot(found, pAllUrls, res))
                       ELSE pSaved
    /\ IF pSec < NumSections
       THEN /\ pSec' = pSec + 1
            /\ sectionData' = NewSectionData(pSec + 1)
            /\ pPc' = IF pScript = "part_001" THEN "base" ELSE "pages"
            /\ pageNum' = 1
            /\ consecutiveFailures' = 0
            /\ foundAnyPages' = FALSE
            /\ probeLog' = <<>>
       ELSE /\ pPc' = "final"
            /\ UNCHANGED <<pSec, sectionData, pageNum, consecutiveFailures,
                           foundAnyPages, probeLog>>
    /\ UNCHANGED <<pScript, pAllUrls, siteVars>>
    /\ UNCHANGED probOthers

\* part_000 lines 131-132, part_001 lines 156-157: the final save
ProbFinish ==
    /\ pPc = "final"
    /\ pSaved' = Append(pSaved, Snapshot(foundSections, pAllUrls, results))
    /\ pPc' = "done"
    /\ UNCHANGED <<pScript, pSec, pageNum, consecutiveFailures, foundAnyPages,
                   sectionData, foundSections, pAllUrls, results, probeLog,
                   siteVars>>
    /\ UNCHANGED probOthers

ProbNext == ProbBase \/ ProbPage \/ ProbEndSection \/ ProbFinish

SpecProber == ProbInit /\ [][ProbNext]_vars

\* has a page of the current section (its base page included) been accepted
\* before pageN.html probe number k
AcceptedBefore(k) ==
    \/ \E j \in 1..(k - 1) : probeLog[j]
    \/ \E i \in 1..Len(sectionData.pages) : sectionData.pages[i].pageNumber = 0

\* probes k-m+1 .. k of the current section were all rejected
RejectedRun(k, m) == k >= m /\ \A j \in (k - m + 1)..k : ~probeLog[j]

\* C3: in part_000 and part_001 (M = 5), once a page of the section has been
\* accepted, the M-th consecutive non-accepted probe is the last probe of the
\* section: after page1, page2 accepted and page3..page7 rejected, page7 is the
\* last page probed and page8 never is.
C3_StopAtMthFailure ==
    \A k \in 1..Len(probeLog) :
        (RejectedRun(k, 5) /\ AcceptedBefore(k - 4))
            => (Len(probeLog) = k /\ pPc # "pages")

\* page1, page2 accepted, page3..page7 rejected, and the section is closed
C3_Witness ==
    /\ probeLog = <<TRUE, TRUE, FALSE, FALSE, FALSE, FALSE, FALSE>>
    /\ pPc = "endSection"
    /\ pageNum = 7

(***************************************************************************)
(* url_tester.js, second script: testPaginatedUrls                         *)
(***************************************************************************)
\* line 176: config.maxPagesToTest
PagMaxPagesToTest == 20

\* Array.prototype.slice(-n)
SliceLast(s, n) == SubSeq(s, IF Len(s) > n THEN Len(s) - n + 1 ELSE 1, Len(s))

\* answer class of a probe result: accepted, HTTP 404, any other failure
PagClass(r) == IF r.success THEN "ok"
               ELSE IF r.status = "404" THEN "404" ELSE "other"

\* lines 287-294: the break test of a failed probe
PagStop(r, pages, n) ==
    /\ r.status = "404"
    /\ Len(SliceLast(pages, 3)) = 0
    /\ n > 3

\* lines 234-244: sectionResults of a new section (the base page is counted)
NewSectionResults == [pages |-> <<>>, totalPages |-> 1]

\* lines 247-253: the base URL record loaded from config.workingUrlsFile
BaseRecord(sec) == [sectionName |-> sec, pageNumber |-> 0,
                    title |-> "Club Honours", contentLength |-> 120]

\* lines 323-337: saveProgress
PagSnapshot(all, res) ==
    [summary |-> [totalUrls |-> Len(all),
                  sectionsProcessed |-> res.sectionsProcessed,
                  totalUrlsTested |-> res.totalUrlsTested],
     allUrls |-> all]

PagInit ==
    /\ PagOthersIdle
    /\ SiteIdle
    /\ gPc = "pages"
    /\ gSec = 1
    /\ gPageNum = 1
    /\ sectionResults = NewSectionResults
    /\ gAllUrls = <<BaseRecord(1)>>
    /\ gResults = [sectionsProcessed |-> 0, totalUrlsTested |-> 0,
                   totalWorkingUrls |-> 0]
    /\ gSaved = <<>>
    /\ gProbeLog = <<>>

\* lines 256-299: one iteration of the page loop
PagPage ==
    /\ gPc = "pages"
    /\ gPageNum <= PagMaxPagesToTest
    /\ \E o \in ProbeOutcomes :
         LET r == TestUrl(o)
             pd == PageData(gPageNum, r)
             stop == ~r.success /\ PagStop(r, sectionResults.pages, gPageNum)
         IN /\ SiteAllows(PagClass(r), MaxFlips)
            /\ SiteStep(PagClass(r))
            /\ gProbeLog' = Append(gProbeLog, PagClass(r))
            /\ IF r.success
               THEN /\ sectionResults' = [sectionResults EXCEPT
                                             !.pages = Append(@, pd),
                                             !.totalPages = @ + 1]
                    /\ gResults' = [gResults EXCEPT
                                      !.totalUrlsTested = @ + 1,
                                      !.totalWorkingUrls = @ + 1]
                    /\ gAllUrls' = Append(gAllUrls, FlatPage(gSec, pd))
               ELSE /\ gResults' = [gResults EXCEPT !.totalUrlsTested = @ + 1]
                    /\ UNCHANGED <<sectionResults, gAllUrls>>
            /\ IF stop \/ gPageNum = PagMaxPagesToTest
               THEN gPc' = "endSection" /\ gPageNum' = gPageNum
               ELSE gPc' = "pages" /\ gPageNum' = gPageNum + 1
    /\ UNCHANGED <<gSec, gSaved>>
    /\ UNCHANGED pagOthers

\* lines 301-311 and 229-253: the section is recorded, the progress saved
\* every 5 sections, and the next section (if any) set up
PagEndSection ==
    /\ gPc = "endSection"
    /\ LET res == [gResults EXCEPT !.sectionsProcessed = @ + 1,
                                   !.totalWorkingUrls = @ + 1]
       IN /\ gResults' = res
          /\ gSaved' = IF res.sectionsProcessed % 5 = 0
                       THEN Append(gSaved, PagSnapshot(gAllUrls, res))
                       ELSE gSaved
    /\ IF gSec < NumSections
       THEN /\ gSec' = gSec + 1
            /\ sectionResults' = NewSectionResults
            /\ gAllUrls' = Append(gAllUrls, BaseRecord(gSec + 1))
            /\ gPageNum' = 1
            /\ gProbeLog' = <<>>
            /\ gPc' = "pages"
       ELSE /\ gPc' = "final"
            /\ UNCHANGED <<gSec, sectionResults, gAllUrls, gPageNum, gProbeLog>>
    /\ UNCHANGED siteVars
    /\ UNCHANGED pagOthers

\* lines 313-314: the final save
PagFinish ==
    /\ gPc = "final"
    /\ gSaved' = Append(gSaved, PagSnapshot(gAllUrls, gResults))
    /\ gPc' = "done"
    /\ UNCHANGED <<gSec, gPageNum, sectionResults, gAllUrls, gResults, gProbeLog>>
    /\ UNCHANGED siteVars
    /\ UNCHANGED pagOthers

PagNext == PagPage \/ PagEndSection \/ PagFinish

SpecPaginated == PagInit /\ [][PagNext]_vars

\* C4: in testPaginatedUrls (M = 3), for a section where page1 and page2 are
\* accepted and page3, page4, page5 all return HTTP 404, probing stops at
\* page5 and page6 is never probed.
C4_StopsAfterThree404 ==
    (/\ Len(gProbeLog) >= 5
     /\ gProbeLog[1] = "ok" /\ gProbeLog[2] = "ok"
     /\ \A k \in 3..5 : gProbeLog[k] = "404")
        => (Len(gProbeLog) = 5 /\ gPc # "pages")

(***************************************************************************)
(* robust_downloader.js : RobustDownloader                                 *)
(***************************************************************************)
NumPages == 3      \* entries of the URL list loaded by loadUrls
MaxImages == 3     \* most <img src> elements on one page

\* line 14: config.retryAttempts
RetryAttempts == 3

\* section names (sequences of characters) of the URL list entries
SectionNames == {<<"a", "-", "b">>, <<"a", "_", "b">>}

\* lines 78-88, 100: urlData = {url, sectionName, pageNumber}; the page's URL
\* is determined by its section and page number
UrlData == [sectionName : SectionNames, pageNumber : {0, 1}]

\* line 227: the characters of [a-zA-Z0-9] occurring in the section names
AlnumChars == {"a", "b", "e", "n", "o", "s", "Z", "0", "2"}

IsAlnum(c) == c \in AlnumChars

\* line 227 without the replacement
Sanitize_asIs(name) == name

\* line 227: sectionName.replace(/[^a-zA-Z0-9]/g, '_')
Sanitize(name) == [i \in 1..Len(name) |-> IF IsAlnum(name[i]) THEN name[i] ELSE "_"]

\* template literal `${pageNumber}`: the decimal digits of a natural number
Digits == <<"0", "1", "2", "3", "4", "5", "6", "7", "8", "9">>

RECURSIVE NumStr(_)
NumStr(n) == IF n < 10 THEN <<Digits[n + 1]>>
             ELSE NumStr(n \div 10) \o <<Digits[(n % 10) + 1]>>

\* lines 226-229: generateFilename
GenerateFilename(sectionName, pageNumber) ==
    IF pageNumber = 0 THEN Sanitize(sectionName)
    ELSE Sanitize(sectionName) \o <<"_", "p", "a", "g", "e">> \o NumStr(pageNumber)

\* src attribute texts: text 2 is an absolute URL, the others are relative
IsAbsolute(t) == t = 2

\* lines 163-165: img.src, the attribute text resolved against the page's
\* location (the directory of the section)
Resolve(sectionName, t) == IF IsAbsolute(t) THEN <<<<"h", "t", "t", "p">>, t>> ELSE <<sectionName, t>>

\* a src attribute as it stands in the markup
OrigSrc(t) == [local |-> FALSE, text |-> t, idx |-> 0, of |-> <<>>]

\* lines 183-184, 197: `assets/images/img${n}_${hash}.${ext}`, the hash and the
\* extension being functions of the absolute image URL
LocalPath(n, imageUrl) == [local |-> TRUE, text |-> 0, idx |-> n, of |-> imageUrl]

\* lines 161-170: extractImages on a page that shows the src texts 1..k
ExtractImages(sectionName, k) ==
    [i \in 1..k |-> [src |-> Resolve(sectionName, i), originalSrc |-> i]]

\* line 116: page.content(), reduced to the src attributes of its images
PageContent(k) == [i \in 1..k |-> OrigSrc(i)]

\* Map.prototype.set
MapSet(m, k, v) == [x \in DOMAIN m \cup {k} |-> IF x = k THEN v ELSE m[x]]

\* lines 214-224: processHtmlContent, every src attribute whose text is a key
\* of the mapping is replaced by the mapped local path
ProcessHtmlContent(html, mapping) ==
    [i \in 1..Len(html) |->
        IF ~html[i].local /\ html[i].text \in DOMAIN mapping
        THEN mapping[html[i].text] ELSE html[i]]

\* lines 173-212: downloadImages; failing is the set of list positions whose
\* fetch throws or answers not-ok; st = [mapping, downloaded, files]
RECURSIVE DownloadImages(_, _, _, _)
DownloadImages(images, i, failing, st) ==
    IF i > Len(images) THEN st
    ELSE LET img == images[i]
             path == LocalPath(Len(st.downloaded), img.src)
         IN IF i \in failing
            THEN DownloadImages(images, i + 1, failing, st)
            ELSE DownloadImages(images, i + 1, failing,
                    [mapping    |-> MapSet(st.mapping, img.originalSrc, path),
                     downloaded |-> Append(st.downloaded,
                                           [originalSrc |-> img.originalSrc,
                                            newPath |-> path]),
                     files      |-> st.files \cup {path}])

\* lines 125-130: the page file is produced from the mapping as it stands
\* when processHtmlContent is called, and the images are downloaded after it
WrittenMarkup(html, mappingAtCall) == ProcessHtmlContent(html, mappingAtCall)

\* line 148: attempt < config.retryAttempts
ShouldRetry_offByOne(a) == a <= RetryAttempts

ShouldRetry(a) == a < RetryAttempts

CountFailed_not(stats) == stats

\* line 154: this.stats.failed++
CountFailed(stats) == [stats EXCEPT !.failed = @ + 1]

\* lines 236-253: saveProgress
ProgressData(stats, downloaded, failed, mapping) ==
    [stats |-> stats, downloadedUrls |-> downloaded, failedUrls |-> failed,
     imageMapping |-> mapping]

\* lines 67-97: the lists loadUrls returns; the prober that wrote the file
\* lists every probed page once
UrlLists == {l \in [1..NumPages -> UrlData] :
                \A i, j \in 1..NumPages : i # j => l[i] # l[j]}

DlInit ==
    /\ DlOthersIdle
    /\ urlList \in UrlLists
    /\ rIdx = 1
    /\ attempt = 1
    /\ rPc = "page"
    /\ rFailedUrls = <<>>
    /\ rStats = [totalUrls |-> NumPages, downloaded |-> 0, failed |-> 0, images |-> 0]
    /\ downloadedUrls = {}
    /\ imageMapping = <<>>
    /\ pageFiles = <<>>
    /\ imageFiles = {}
    /\ rSaved = <<>>
    /\ rAttempts = [i \in 1..NumPages |-> 0]
    /\ rOutcome = [i \in 1..NumPages |-> "pending"]
    /\ lastDl = <<>>

\* lines 269-281: the rest of one iteration of run's loop after downloadPage
\* has returned: the periodic save, then the next list entry
RunLoopTail(stats, failed, downloaded, mapping) ==
    /\ rSaved' = IF stats.downloaded % 10 = 0
                 THEN <<ProgressData(stats, downloaded, failed, mapping)>>
                 ELSE rSaved
    /\ attempt' = 1
    /\ IF rIdx < Len(urlList)
       THEN rIdx' = rIdx + 1 /\ rPc' = "page"
       ELSE rIdx' = rIdx /\ rPc' = "final"

\* lines 102-143: an attempt of downloadPage that succeeds; the page shows k
\* images (none, or MaxImages), of which those at the positions in failing
\* (none, or the first) cannot be downloaded
DlPageOk ==
    /\ rPc = "page"
    /\ \E k \in {0, MaxImages} :
       \E failing \in {{}} \cup {{i} : i \in {1} \cap 1..k} :
         LET urlData == urlList[rIdx]
             html == PageContent(k)
             images == ExtractImages(urlData.sectionName, k)
             filename == GenerateFilename(urlData.sectionName, urlData.pageNumber)
             dl == DownloadImages(images, 1, failing,
                                  [mapping |-> imageMapping, downloaded |-> <<>>,
                                   files |-> imageFiles])
             stats == [rStats EXCEPT !.downloaded = @ + 1,
                                     !.images = @ + Len(dl.downloaded)]
         IN /\ pageFiles' = MapSet(pageFiles, filename,
                                   WrittenMarkup(html, imageMapping))
            /\ imageMapping' = dl.mapping
            /\ imageFiles' = dl.files
            /\ rStats' = stats
            /\ downloadedUrls' = downloadedUrls \cup {urlData}
            /\ lastDl' = [idx |-> rIdx, file |-> filename, html |-> html,
                          failing |-> failing, mappingBefore |-> imageMapping,
                          downloaded |-> dl.downloaded]
            /\ RunLoopTail(stats, rFailedUrls, downloadedUrls \cup {urlData},
                           dl.mapping)
    /\ rAttempts' = [rAttempts EXCEPT ![rIdx] = @ + 1]
    /\ rOutcome' = [rOutcome EXCEPT ![rIdx] = "ok"]
    /\ UNCHANGED <<urlList, rFailedUrls>>
    /\ UNCHANGED dlOthers

\* lines 102-151: an attempt of downloadPage that throws and is retried
DlPageRetry ==
    /\ rPc = "page"
    /\ ShouldRetry(attempt)
    /\ attempt' = attempt + 1
    /\ rAttempts' = [rAttempts EXCEPT ![rIdx] = @ + 1]
    /\ UNCHANGED <<urlList, rIdx, rPc, rFailedUrls, rStats, downloadedUrls,
                   imageMapping, pageFiles, imageFiles, rSaved, rOutcome, lastDl>>
    /\ UNCHANGED dlOthers

\* lines 102-156: the last attempt of downloadPage throws: the URL is recorded
\* as failed and run's loop goes on
DlPageGiveUp ==
    /\ rPc = "page"
    /\ ~ShouldRetry(attempt)
    /\ LET failed == Append(rFailedUrls, urlList[rIdx])
           stats == CountFailed(rStats)
       IN /\ rFailedUrls' = failed
          /\ rStats' = stats
          /\ RunLoopTail(stats, failed, downloadedUrls, imageMapping)
    /\ rAttempts' = [rAttempts EXCEPT ![rIdx] = @ + 1]
    /\ rOutcome' = [rOutcome EXCEPT ![rIdx] = "failed"]
    /\ UNCHANGED <<urlList, downloadedUrls, imageMapping, pageFiles, imageFiles,
                   lastDl>>
    /\ UNCHANGED dlOthers

\* lines 283-284: the final save
DlFinish ==
    /\ rPc = "final"
    /\ rSaved' = <<ProgressData(rStats, downloadedUrls, rFailedUrls, imageMapping)>>
    /\ rPc' = "done"
    /\ UNCHANGED <<urlList, rIdx, attempt, rFailedUrls, rStats, downloadedUrls,
                   imageMapping, pageFiles, imageFiles, rAttempts, rOutcome, lastDl>>
    /\ UNCHANGED dlOthers

DlNext == DlPageOk \/ DlPageRetry \/ DlPageGiveUp \/ DlFinish

SpecDownloader == DlInit /\ [][DlNext]_vars

\* the sources of the last downloaded page whose image was fetched
DownloadedSrcs == {lastDl.downloaded[i].originalSrc : i \in 1..Len(lastDl.downloaded)}

NewPathOf(t) ==
    (CHOOSE i \in 1..Len(lastDl.downloaded) : lastDl.downloaded[i].originalSrc = t)

\* C5: a page that references 3 image sources of which exactly 2 download,
\* handled with an empty imageMapping, is written with the 2 downloaded sources
\* replaced by their local paths and the failed one left as it was, and
\* imageMapping then has exactly 2 entries.
C5_RewriteComplete ==
    (/\ lastDl # <<>>
     /\ Len(lastDl.html) = 3
     /\ Cardinality(lastDl.failing) = 1
     /\ lastDl.mappingBefore = <<>>)
        => /\ Cardinality(DOMAIN imageMapping) = 2
           /\ \A i \in 1..3 :
                pageFiles[lastDl.file][i] =
                    IF lastDl.html[i].text \in DownloadedSrcs
                    THEN lastDl.downloaded[NewPathOf(lastDl.html[i].text)].newPath
                    ELSE lastDl.html[i]

\* the list indexes recorded as failed, in list order
RECURSIVE FailedEntries(_)
FailedEntries(i) ==
    IF i = 0 THEN <<>>
    ELSE FailedEntries(i - 1) \o (IF rOutcome[i] = "failed" THEN <<urlList[i]>> ELSE <<>>)

\* C6: a page is attempted at most retryAttempts (3) times; when all attempts
\* fail its URL is in failedUrls exactly once and stats.failed counts it once,
\* and run() has gone on to the next list entry.
C6_RetryThenFailOnce ==
    /\ \A i \in 1..NumPages :
         /\ rAttempts[i] <= RetryAttempts
         /\ rOutcome[i] = "failed" =>
               /\ rAttempts[i] = RetryAttempts
               /\ IF i < NumPages THEN rIdx > i ELSE rPc \in {"final", "done"}
         /\ rOutcome[i] = "pending" /\ rAttempts[i] > 0 =>
               rIdx = i /\ rPc = "page" /\ attempt = rAttempts[i] + 1
    /\ rFailedUrls = FailedEntries(NumPages)
    /\ rStats.failed = Len(rFailedUrls)

\* the first page failed three times, the second was then downloaded
C6_Witness ==
    /\ rOutcome = [i \in 1..NumPages |-> IF i = 1 THEN "failed" ELSE IF i = 2 THEN "ok" ELSE "pending"]
    /\ rAttempts[1] = 3
    /\ Len(rFailedUrls) = 1
    /\ rStats.failed = 1 /\ rStats.downloaded = 1

(***************************************************************************)
(* comprehensive_url_discovery.js : ComprehensiveUrlDiscovery              *)
(***************************************************************************)
NumCandidates == 1   \* candidates per phase: section names, direct pages, patterns
FlipWindow == 4      \* site family: pages beyond this one answer like the page before
MaxLoaded == 1       \* most workingUrls entries of the snapshot found at startup

\* line 8: config.maxRetries
MaxRetries == 3

\* line 11: config.batchSize
BatchSize == 50

\* line 12: config.maxPaginationTest
MaxPaginationTest == 50

\* lines 109, 220, 266, 301: the URL tested for a candidate; page = 0 is the
\* candidate's own URL, page = n > 0 its `page${n}.html`
CudUrl(phase, item, page) ==
    <<(IF phase = 1 THEN "section" ELSE IF phase = 2 THEN "direct" ELSE "pattern"),
      item, page>>

\* the URLs a snapshot left by an earlier run may list as working
LoadableUrls == {CudUrl(1, 1, 0), CudUrl(1, 1, 2), CudUrl(1, 1, 3), CudUrl(2, 1, 0)}

\* lines 351-356: the URLs of existing.workingUrls are added to testedUrls
LoadExisting_none(existing) == {}

LoadExisting(existing) == existing

\* line 47: this.testedUrls.has(url)
HasTested(url) == url \in testedUrls

\* lines 92-93: the finally block of one testUrl call
Finally(stats) == [stats EXCEPT !.totalTested = @ + 1]

\* lines 326-344: saveProgress
CudSnapshot(working, failed, stats) ==
    [stats |-> stats, workingUrls |-> working, totalUrls |-> Len(working),
     failedUrls |-> Len(failed)]

CudInit ==
    /\ CudOthersIdle
    /\ SiteIdle
    /\ loadedUrls \in {l \in SUBSET LoadableUrls : Cardinality(l) <= MaxLoaded}
    /\ testedUrls = LoadExisting(loadedUrls)
    /\ workingUrls = <<>>
    /\ cFailedUrls = <<>>
    /\ cStats = [totalTested |-> 0, working |-> 0, failed |-> 0]
    /\ cSaved = <<>>
    /\ cPhase = 1
    /\ cItem = 1
    /\ cPag = 0
    /\ cConsec = 0
    /\ cPc = "call"
    /\ cUrl = <<>>
    /\ cRetries = 0
    /\ cResult = "none"
    /\ cGotoLog = <<>>

\* lines 46-55: a phase loop calls testUrl(url); an already tested URL returns
\* null at once, otherwise the navigation starts
CudCall ==
    /\ cPc = "call"
    /\ LET url == CudUrl(cPhase, cItem, cPag)
       IN IF HasTested(url)
          THEN /\ cResult' = "null"
               /\ cPc' = "ret"
               /\ UNCHANGED <<cUrl, cRetries, cGotoLog>>
          ELSE /\ cUrl' = url
               /\ cRetries' = 0
               /\ cGotoLog' = Append(cGotoLog, url)
               /\ cPc' = "goto"
               /\ UNCHANGED cResult
    /\ UNCHANGED <<loadedUrls, testedUrls, workingUrls, cFailedUrls, cStats, cSaved,
                   cPhase, cItem, cPag, cConsec>>
    /\ UNCHANGED siteVars
    /\ UNCHANGED cudOthers

\* the site's answer to the navigation in flight may be of this class
CudSiteAllows(class) ==
    /\ SiteAllows(class, CudMaxFlips)
    /\ cPag > FlipWindow => siteLast \in {"none", class}

\* lines 57-75, 91-100: the navigation answers with a working page
CudGotoWorking ==
    /\ cPc = "goto"
    /\ CudSiteAllows("working")
    /\ SiteStep("working")
    /\ workingUrls' = Append(workingUrls, cUrl)
    /\ cStats' = Finally([cStats EXCEPT !.working = @ + 1])
    /\ testedUrls' = testedUrls \cup {cUrl}
    /\ cResult' = "working"
    /\ cPc' = "ret"
    /\ UNCHANGED <<loadedUrls, cFailedUrls, cSaved, cPhase, cItem, cPag, cConsec,
                   cUrl, cRetries, cGotoLog>>
    /\ UNCHANGED cudOthers

\* lines 57-80, 91-100: the navigation answers not-ok, or with a page that
\* is not working
CudGotoNotWorking ==
    /\ cPc = "goto"
    /\ CudSiteAllows("notWorking")
    /\ SiteStep("notWorking")
    /\ cFailedUrls' = Append(cFailedUrls, cUrl)
    /\ cStats' = Finally([cStats EXCEPT !.failed = @ + 1])
    /\ testedUrls' = testedUrls \cup {cUrl}
    /\ cResult' = "null"
    /\ cPc' = "ret"
    /\ UNCHANGED <<loadedUrls, workingUrls, cSaved, cPhase, cItem, cPag, cConsec,
                   cUrl, cRetries, cGotoLog>>
    /\ UNCHANGED cudOthers

\* lines 82-100: the navigation throws.  With retries left the catch block
\* calls testUrl(url, retries + 1), whose test of testedUrls (line 47) and
\* whose page.goto run before the finally block of the throwing call; the
\* finally block then adds the URL to testedUrls.
CudGotoThrow ==
    /\ cPc = "goto"
    /\ CudSiteAllows("throw")
    /\ SiteStep("throw")
    /\ testedUrls' = testedUrls \cup {cUrl}
    /\ IF cRetries < MaxRetries
       THEN IF HasTested(cUrl)
            THEN /\ cResult' = "null"
                 /\ cPc' = "ret"
                 /\ cStats' = Finally(cStats)
                 /\ UNCHANGED <<cRetries, cGotoLog, cFailedUrls>>
            ELSE /\ cRetries' = cRetries + 1
                 /\ cGotoLog' = Append(cGotoLog, cUrl)
                 /\ cPc' = "goto"
                 /\ cStats' = Finally(cStats)
                 /\ UNCHANGED <<cResult, cFailedUrls>>
       ELSE /\ cFailedUrls' = Append(cFailedUrls, cUrl)
            /\ cStats' = Finally([cStats EXCEPT !.failed = @ + 1])
            /\ cResult' = "null"
            /\ cPc' = "ret"
            /\ UNCHANGED <<cRetries, cGotoLog>>
    /\ UNCHANGED <<loadedUrls, workingUrls, cSaved, cPhase, cItem, cPag, cConsec,
                   cUrl>>
    /\ UNCHANGED cudOthers

\* lines 234-241, 265-275, 300-314: a candidate is finished; in phase 1 the
\* progress is saved when totalTested is a multiple of the batch size; then
\* the next candidate, the next phase, or the end of the phases
AfterItem ==
    /\ cSaved' = IF cPhase = 1 /\ cStats.totalTested % BatchSize = 0
                 THEN <<CudSnapshot(workingUrls, cFailedUrls, cStats)>>
                 ELSE cSaved
    /\ cPag' = 0
    /\ cConsec' = 0
    /\ IF cItem < NumCandidates
       THEN cItem' = cItem + 1 /\ cPhase' = cPhase /\ cPc' = "call"
       ELSE IF cPhase < 3
            THEN cItem' = 1 /\ cPhase' = cPhase + 1 /\ cPc' = "call"
            ELSE cItem' = cItem /\ cPhase' = cPhase /\ cPc' = "final"

\* lines 117-121: a page that is not reported working counts as a failure
ConsecAfter(working) == IF working THEN 0 ELSE cConsec + 1

\* the caller of testUrl goes on with the result: testBaseSections (lines
\* 221-238), testPaginationForSection (lines 108-123), testDirectPages (lines
\* 267-271), testAlternativePatterns (lines 302-310)
CudReturn ==
    /\ cPc = "ret"
    /\ LET working == cResult = "working"
       IN IF cPag = 0
          THEN IF working /\ cPhase # 2
               THEN /\ cPag' = 2
                    /\ cConsec' = 0
                    /\ cPc' = "call"
                    /\ UNCHANGED <<cSaved, cPhase, cItem>>
               ELSE AfterItem
          ELSE IF ConsecAfter(working) < 5 /\ cPag < MaxPaginationTest
               THEN /\ cPag' = cPag + 1
                    /\ cConsec' = ConsecAfter(working)
                    /\ cPc' = "call"
                    /\ UNCHANGED <<cSaved, cPhase, cItem>>
               ELSE AfterItem
    /\ cResult' = "none"
    /\ UNCHANGED <<loadedUrls, testedUrls, workingUrls, cFailedUrls, cStats, cUrl,
                   cRetries, cGotoLog>>
    /\ UNCHANGED siteVars
    /\ UNCHANGED cudOthers

\* lines 366-367: the final save
CudFinish ==
    /\ cPc = "final"
    /\ cSaved' = <<CudSnapshot(workingUrls, cFailedUrls, cStats)>>
    /\ cPc' = "done"
    /\ UNCHANGED <<loadedUrls, testedUrls, workingUrls, cFailedUrls, cStats, cPhase,
                   cItem, cPag, cConsec, cUrl, cRetries, cResult, cGotoLog>>
    /\ UNCHANGED siteVars
    /\ UNCHANGED cudOthers

CudNext == CudCall \/ CudGotoWorking \/ CudGotoNotWorking \/ CudGotoThrow
           \/ CudReturn \/ CudFinish

SpecComprehensive == CudInit /\ [][CudNext]_vars

\* C7: when run() has loaded an existing snapshot, no URL of that snapshot's
\* workingUrls is navigated to during the run, in any of the three phases.
C7_NoRefetchOfLoaded == Range(cGotoLog) \cap loadedUrls = {}

\* a finished run that loaded page2.html of section 1, navigated to the
\* section's base URL and to page3.html, and went through all three phases
C7_Witness ==
    /\ cPc = "done"
    /\ loadedUrls = {CudUrl(1, 1, 2)}
    /\ Includes(cGotoLog, CudUrl(1, 1, 0))
    /\ Includes(cGotoLog, CudUrl(1, 1, 3))
    /\ Includes(cGotoLog, CudUrl(3, 1, 0))

\* C8: every snapshot written lists, in workingUrls, every URL of the
\* workingUrls of the snapshot the run loaded at startup.
C8_SnapshotCumulative ==
    cSaved # <<>> => loadedUrls \subseteq Range(cSaved[1].workingUrls)

Count(s, x) == Cardinality({i \in 1..Len(s) : s[i] = x})

\* C9: every URL navigated to by a testUrl call that has completed is
\* recorded exactly once, in workingUrls or in failedUrls, whatever the
\* outcomes of its navigations (all of them raising errors included).
C9_RecordedExactlyOnce ==
    \A u \in Range(cGotoLog) :
        (cPc # "goto" \/ u # cUrl)
            => Count(workingUrls, u) + Count(cFailedUrls, u) = 1

(***************************************************************************)
(* full_url_tester.js : testAllUrls                                        *)
(***************************************************************************)
FtMaxMappings == 50   \* longest list of URL mappings tested
FtMaxFlips == 1       \* changes of answer class met by testAllUrls

\* line 156: failedUrls.slice(-20)
KeepFailures == 20

\* line 133: results.tested % 50 === 0
SaveEvery == 50

\* lengths of the list returned by loadAllPageNames
FtLengths == {0, KeepFailures + 1, FtMaxMappings}

\* lines 45-51: the mapping of the i-th page name
FtMapping(i) == [pageName |-> <<i, ".html">>, baseName |-> <<i>>,
                 url |-> <<"website/", i, "/">>]

\* the fetch outcomes testAllUrls is run against
FtOutcomes == {GotoThrew,
               GotoStatus("404", "Not Found", 9),
               GotoStatus("200", "Club Honours", 120)}

\* lines 62-86: testUrl(page, url); an absent field is ""
FtTestUrl(o) ==
    IF o.threw
    THEN [success |-> FALSE, status |-> "", error |-> "Navigation timeout",
          title |-> "", contentLength |-> 0]
    ELSE IF o.hasResponse /\ o.status = "200"
         THEN IF o.bodyLen > 5 \/ (o.title # "" /\ o.title # "Untitled")
              THEN [success |-> TRUE, status |-> "", error |-> "",
                    title |-> o.title, contentLength |-> o.bodyLen]
              ELSE [success |-> FALSE, status |-> "200 but no content or title",
                    error |-> "", title |-> "", contentLength |-> 0]
         ELSE [success |-> FALSE,
               status |-> IF o.hasResponse THEN o.status ELSE "No response",
               error |-> "", title |-> "", contentLength |-> 0]

\* line 125: result.error || result.status
ErrorOrStatus(r) == IF r.error # "" THEN r.error ELSE r.status

\* answer class of a probe result
FtClass(r) == IF r.success THEN "ok" ELSE ErrorOrStatus(r)

\* line 156
KeepLast(failed) == SliceLast(failed, KeepFailures)

\* lines 151-161: the object saveProgress writes (timestamp left out)
FtOutput(working, failed, res) ==
    [results |-> res, workingUrls |-> working, failedUrls |-> KeepLast(failed)]

FtInit ==
    /\ fMappings \in FtLengths
    /\ fPc = "loop"
    /\ fWorkingUrls = <<>>
    /\ fFailedUrls = <<>>
    /\ fResults = [tested |-> 0, working |-> 0, failed |-> 0]
    /\ fFile = <<>>
    /\ fSaves = 0
    /\ SiteIdle
    /\ FtOthersIdle

\* lines 104-139: one iteration of the for-of loop
FtTest ==
    /\ fPc = "loop"
    /\ fResults.tested < fMappings
    /\ \E o \in FtOutcomes :
         LET mapping == FtMapping(fResults.tested + 1)
             result == FtTestUrl(o)
             working == IF result.success
                        THEN Append(fWorkingUrls,
                                    [pageName |-> mapping.pageName,
                                     baseName |-> mapping.baseName,
                                     workingUrl |-> mapping.url,
                                     title |-> result.title,
                                     contentLength |-> result.contentLength])
                        ELSE fWorkingUrls
             failed == IF result.success
                       THEN fFailedUrls
                       ELSE Append(fFailedUrls,
                                   [pageName |-> mapping.pageName,
                                    url |-> mapping.url,
                                    error |-> ErrorOrStatus(result)])
             res == [tested |-> fResults.tested + 1,
                     working |-> fResults.working
                                    + (IF result.success THEN 1 ELSE 0),
                     failed |-> fResults.failed
                                    + (IF result.success THEN 0 ELSE 1)]
             save == res.tested % SaveEvery = 0
         IN  /\ SiteAllows(FtClass(result), FtMaxFlips)
             /\ SiteStep(FtClass(result))
             /\ fWorkingUrls' = working
             /\ fFailedUrls' = failed
             /\ fResults' = res
             /\ fFile' = IF save THEN FtOutput(working, failed, res) ELSE fFile
             /\ fSaves' = IF save THEN fSaves + 1 ELSE fSaves
    /\ UNCHANGED <<fMappings, fPc>>
    /\ UNCHANGED ftOthers

\* lines 141-142: the loop is over, the final saveProgress
FtFinish ==
    /\ fPc = "loop"
    /\ fResults.tested = fMappings
    /\ fPc' = "done"
    /\ fFile' = FtOutput(fWorkingUrls, fFailedUrls, fResults)
    /\ fSaves' = fSaves + 1
    /\ UNCHANGED <<fMappings, fWorkingUrls, fFailedUrls, fResults>>
    /\ UNCHANGED siteVars
    /\ UNCHANGED ftOthers

FtNext == FtTest \/ FtFinish

SpecFullTester == FtInit /\ [][FtNext]_vars

\* C10: at run end the failedUrls list of the written snapshot contains
\* every URL that testUrl rejected during the run, however many there were.
C10_AllRejectedPersisted ==
    fPc = "done"
        => \A i \in 1..Len(fFailedUrls) :
               \E k \in 1..Len(fFile.failedUrls) :
                   fFile.failedUrls[k].url = fFailedUrls[i].url

(***************************************************************************)
(* The testUrl liveness probes of url_tester.js (both scripts of the       *)
(* file), full_url_tester.js, unnamed/part_000 and unnamed/part_001,       *)
(* applied to the same fetch outcome                                       *)
(***************************************************************************)
MaxBodyChars == 6   \* longest document.body.innerText

\* characters of the body text: white space and anything else
BodyChars == {" ", "x"}

Titles == {"", "Untitled", "Club Honours"}

Statuses == {"200", "404", "301"}

\* String.prototype.trim
RECURSIVE TrimStart(_)
TrimStart(s) == IF s # <<>> /\ Head(s) = " " THEN TrimStart(Tail(s)) ELSE s

RECURSIVE TrimEnd(_)
TrimEnd(s) == IF s # <<>> /\ s[Len(s)] = " "
              THEN TrimEnd(SubSeq(s, 1, Len(s) - 1)) ELSE s

Trim(s) == TrimEnd(TrimStart(s))

\* what the browser can hand to one testUrl call
TuInputs ==
    {[threw |-> TRUE, hasResponse |-> FALSE, status |-> "", title |-> "",
      body |-> <<>>],
     [threw |-> FALSE, hasResponse |-> FALSE, status |-> "", title |-> "",
      body |-> <<>>]}
    \cup [threw : {FALSE}, hasResponse : {TRUE}, status : Statuses,
          title : Titles, body : SeqsUpTo(BodyChars, MaxBodyChars)]

\* page.evaluate(() => document.body.innerText.trim()) and its length
Evaluate(i) == [threw |-> i.threw, hasResponse |-> i.hasResponse,
                status |-> i.status, title |-> i.title,
                bodyLen |-> Len(Trim(i.body))]

\* url_tester.js lines 44-72 with a title test that lets "Untitled" pass
UtTestUrl_anyTitle(o) ==
    IF o.threw
    THEN [success |-> FALSE, status |-> "", error |-> "Navigation timeout",
          title |-> "", contentLength |-> 0]
    ELSE IF o.hasResponse /\ o.status = "200"
         THEN IF o.bodyLen > 5 \/ o.title # ""
              THEN [success |-> TRUE, status |-> "", error |-> "",
                    title |-> o.title, contentLength |-> o.bodyLen]
              ELSE [success |-> FALSE, status |-> "200 but no content or title",
                    error |-> "", title |-> "", contentLength |-> 0]
         ELSE [success |-> FALSE,
               status |-> IF o.hasResponse THEN o.status ELSE "No response",
               error |-> "", title |-> "", contentLength |-> 0]

\* url_tester.js lines 44-72: testUrl of the first script; an absent field is ""
UtTestUrl(o) ==
    IF o.threw
    THEN [success |-> FALSE, status |-> "", error |-> "Navigation timeout",
          title |-> "", contentLength |-> 0]
    ELSE IF o.hasResponse /\ o.status = "200"
         THEN IF o.bodyLen > 5 \/ (o.title # "" /\ o.title # "Untitled")
              THEN [success |-> TRUE, status |-> "", error |-> "",
                    title |-> o.title, contentLength |-> o.bodyLen]
              ELSE [success |-> FALSE, status |-> "200 but no content or title",
                    error |-> "", title |-> "", contentLength |-> 0]
         ELSE [success |-> FALSE,
               status |-> IF o.hasResponse THEN o.status ELSE "No response",
               error |-> "", title |-> "", contentLength |-> 0]

TuScripts == {"url_tester.js:44", "url_tester.js:189", "full_url_tester.js",
              "part_000", "part_001"}

TuInit ==
    /\ tuIn \in TuInputs
    /\ tuOut = <<>>
    /\ TuOthersIdle

\* tuOut once the script's testUrl has returned r
TuPut(script, r) == [s \in DOMAIN tuOut \cup {script} |->
                        IF s = script THEN r ELSE tuOut[s]]

\* url_tester.js lines 44-72
TuUrlTesterFormats ==
    /\ "url_tester.js:44" \notin DOMAIN tuOut
    /\ tuOut' = TuPut("url_tester.js:44", UtTestUrl(Evaluate(tuIn)))
    /\ UNCHANGED tuIn
    /\ UNCHANGED tuOthers

\* url_tester.js lines 189-211
TuUrlTesterPaginated ==
    /\ "url_tester.js:189" \notin DOMAIN tuOut
    /\ tuOut' = TuPut("url_tester.js:189", TestUrl(Evaluate(tuIn)))
    /\ UNCHANGED tuIn
    /\ UNCHANGED tuOthers

\* full_url_tester.js lines 62-86
TuFullTester ==
    /\ "full_url_tester.js" \notin DOMAIN tuOut
    /\ tuOut' = TuPut("full_url_tester.js", FtTestUrl(Evaluate(tuIn)))
    /\ UNCHANGED tuIn
    /\ UNCHANGED tuOthers

\* unnamed/part_000 lines 24-46
TuPart000 ==
    /\ "part_000" \notin DOMAIN tuOut
    /\ tuOut' = TuPut("part_000", TestUrl(Evaluate(tuIn)))
    /\ UNCHANGED tuIn
    /\ UNCHANGED tuOthers

\* unnamed/part_001 lines 19-41
TuPart001 ==
    /\ "part_001" \notin DOMAIN tuOut
    /\ tuOut' = TuPut("part_001", TestUrl(Evaluate(tuIn)))
    /\ UNCHANGED tuIn
    /\ UNCHANGED tuOthers

TuNext == \/ TuUrlTesterFormats
          \/ TuUrlTesterPaginated
          \/ TuFullTester
          \/ TuPart000
          \/ TuPart001

SpecTestUrl == TuInit /\ [][TuNext]_vars

\* the decision the probes are said to compute
Decision(i) ==
    /\ ~i.threw
    /\ i.hasResponse
    /\ i.status = "200"
    /\ \/ Len(Trim(i.body)) > 5
       \/ (i.title # "" /\ i.title # "Untitled")

\* C11: the five testUrl probes return the same success value for the same
\* fetch outcome: false when the navigation raised an error, when there is no
\* response or when the status is not 200, and otherwise true exactly when the
\* trimmed body text has more than 5 characters or the title is non-empty and
\* not "Untitled"; so a 200 with empty text is rejected under the title
\* "Untitled" and accepted under "Club Honours", and a 200 with a text of 5
\* characters and an empty title is rejected.
C11_SameDecision ==
    \A s \in DOMAIN tuOut :
        /\ tuOut[s].success = Decision(tuIn)
        /\ (tuIn.status = "200" /\ tuIn.body = <<>> /\ tuIn.title = "Untitled")
               => ~tuOut[s].success
        /\ (tuIn.status = "200" /\ tuIn.body = <<>> /\ tuIn.title = "Club Honours")
               => tuOut[s].success
        /\ (tuIn.status = "200" /\ Len(Trim(tuIn.body)) = 5 /\ tuIn.title = "")
               => ~tuOut[s].success

\* all five probes have rejected a 200 whose text is 5 characters and a
\* trailing blank, under an empty title
C11_Witness ==
    /\ DOMAIN tuOut = TuScripts
    /\ tuIn.status = "200"
    /\ tuIn.title = ""
    /\ tuIn.body = <<"x", "x", "x", "x", "x", " ">>
    /\ \A s \in TuScripts : ~tuOut[s].success

(***************************************************************************)
(* ComprehensiveUrlDiscovery.testUrl: navigations per candidate URL        *)
(***************************************************************************)
\* C12: a liveness probe navigates once per candidate URL: a navigation that
\* raises an error rejects the URL at once, and no URL is navigated to a
\* second time, in ComprehensiveUrlDiscovery.testUrl as in the other probes.
C12_OneNavigationPerUrl == NoDup(cGotoLog)

(***************************************************************************)
(* Section probers: the threshold of a section with no accepted page       *)
(***************************************************************************)
\* C13: while no page of the section has been accepted, the run of
\* consecutive failed probes that ends the section's probing is shorter than
\* the run of 5 that ends it after an accepted page: with no page accepted
\* the count of consecutive failures stays below 5.
C13_SmallerThresholdUnfound ==
    (pPc \in {"pages", "endSection"} /\ ~foundAnyPages)
        => consecutiveFailures < 5

(***************************************************************************)
(* Pagination probing order                                                *)
(***************************************************************************)
\* C14: the pages of one section are probed in the order page1.html,
\* page2.html, page3.html, ... starting at 1 with no index skipped and none
\* above the ceiling; stated for testPaginationForSection on a run that
\* loaded no earlier snapshot: a navigation to page n >= 2 of a section comes
\* after a navigation to its page n - 1, and n is at most the ceiling of 50.
C14_PagesInOrderFromOne ==
    loadedUrls = {}
        => \A i \in 1..Len(cGotoLog) :
               (cGotoLog[i][1] = "section" /\ cGotoLog[i][3] >= 1)
                   => /\ cGotoLog[i][3] <= MaxPaginationTest
                      /\ cGotoLog[i][3] >= 2
                             => \E j \in 1..(i - 1) :
                                    cGotoLog[j] = CudUrl(1, cGotoLog[i][2],
                                                         cGotoLog[i][3] - 1)

(***************************************************************************)
(* url_discover.js: what enters urlQueue                                   *)
(***************************************************************************)
\* how many times u stands in the queue q
QueuedCopies(q, u) == Cardinality({i \in 1..Len(q) : q[i] = u})

\* one step of the loop appends u to urlQueue
Appends(u) ==
    /\ urlQueue # <<>>
    /\ QueuedCopies(urlQueue', u) > QueuedCopies(Tail(urlQueue), u)

\* C15: a link is appended to urlQueue only when it is neither in visitedUrls
\* (which already holds the page being processed, added before its
\* navigation) nor in urlQueue; so every URL navigated to is in visitedUrls,
\* a page linking to itself is not re-queued, and no discovered URL is in
\* urlQueue twice or in urlQueue while visited.
C15_EnqueueOnlyNew ==
    /\ [](/\ Range(gotoLog) \subseteq visitedUrls
          /\ \A u \in Range(discoveredUrls) :
                 /\ QueuedCopies(urlQueue, u) <= 1
                 /\ Includes(urlQueue, u) => u \notin visitedUrls)
    /\ [][\A u \in Urls :
             Appends(u) => /\ u \notin visitedUrls'
                           /\ ~Includes(Tail(urlQueue), u)
                           /\ QueuedCopies(urlQueue', u) = 1
                           /\ u # Head(urlQueue)]_vars

\* page 1 was fetched and links to itself and to 2: only 2 is queued
C15_Witness ==
    /\ startUrls = <<1>>
    /\ gotoLog = <<1>>
    /\ lastLinks = <<1, 2>>
    /\ urlQueue = <<2>>
    /\ discoveredUrls = <<2>>

(***************************************************************************)
(* url_discover.js : link extraction (lines 82-102).  A string is a        *)
(* sequence of tokens: an origin, a scheme, "/", "..", or a path segment.  *)
(***************************************************************************)
MaxAnchors == 2   \* most <a> elements on the page

\* line 89
Origin == "https://0002n8y.wcomhost.com"

OtherOrigin == "https://other.example"

\* line 7: config.baseUrl, and lines 97-98
BaseUrl == <<Origin, "/", "website", "/">>

Null == <<"null">>

\* tokens that contain "://"
HasSchemeSep(tok) == tok \in {Origin, OtherOrigin}

\* tokens that are a scheme without authority
OpaqueSchemes == {"mailto:", "javascript:"}

\* String.prototype.startsWith
StartsWith(s, p) == IsPrefix(p, s)

\* String.prototype.includes('://')
IncludesSchemeSep(s) == \E i \in 1..Len(s) : HasSchemeSep(s[i])

\* does p stand in s at position i
OccursAt(s, p, i) == i + Len(p) - 1 <= Len(s) /\ SubSeq(s, i, i + Len(p) - 1) = p

\* String.prototype.replace(p, ''): the first occurrence of p is removed
ReplaceFirst(s, p) ==
    IF \E i \in 1..Len(s) : OccursAt(s, p, i)
    THEN LET i == CHOOSE k \in 1..Len(s) :
                     /\ OccursAt(s, p, k)
                     /\ \A j \in 1..(k - 1) : ~OccursAt(s, p, j)
         IN SubSeq(s, 1, i - 1) \o SubSeq(s, i + Len(p), Len(s))
    ELSE s

\* the path up to and including its last "/" (the directory of a document)
RECURSIVE DirOf(_)
DirOf(p) == IF p = <<>> \/ p[Len(p)] = "/" THEN p
            ELSE DirOf(SubSeq(p, 1, Len(p) - 1))

\* a path ending in "/" without its last segment; the root stays the root
PopSegment(out) == IF Len(out) >= 3 THEN SubSeq(out, 1, Len(out) - 2) ELSE out

\* URL parsing, removal of the ".." segments of a path
RECURSIVE RemoveDots(_, _)
RemoveDots(in, out) ==
    IF in = <<>> THEN out
    ELSE IF Head(in) = ".."
         THEN RemoveDots(IF Len(in) >= 2 THEN Tail(Tail(in)) ELSE <<>>,
                         PopSegment(out))
         ELSE RemoveDots(Tail(in), Append(out, Head(in)))

\* the href property of an <a> element (line 84, a.href): the attribute text
\* resolved by the browser against the document URL; "" without attribute
HrefProperty_raw(attr, docUrl) == IF attr = Null THEN <<>> ELSE attr

HrefProperty(attr, docUrl) ==
    IF attr = Null THEN <<>>
    ELSE IF Head(attr) \in OpaqueSchemes THEN attr
    ELSE IF HasSchemeSep(Head(attr))
         THEN <<Head(attr)>> \o RemoveDots(Tail(attr), <<>>)
    ELSE IF Head(attr) = "/"
         THEN <<Head(docUrl)>> \o RemoveDots(attr, <<>>)
    ELSE <<Head(docUrl)>> \o RemoveDots(DirOf(Tail(docUrl)) \o attr, <<>>)

\* lines 83-94: the first map of one anchor; fullUrl is the page's URL
NormalizeHref(attr, fullUrl) ==
    LET prop == HrefProperty(attr, fullUrl)
        href == IF prop # <<>> THEN prop ELSE attr
    IN IF href = Null THEN Null
       ELSE IF StartsWith(href, <<"/">>) THEN <<Origin>> \o href
       ELSE IF StartsWith(href, <<"..", "/">>) \/ ~IncludesSchemeSep(href)
            THEN fullUrl \o href
       ELSE href

\* line 97: the filter
KeepHref(href) == href # Null /\ StartsWith(href, BaseUrl)

\* line 98: the second map
StripBase(href) == ReplaceFirst(href, BaseUrl)

\* Array.prototype.filter followed by map, lines 97-98
RECURSIVE FilterMap(_)
FilterMap(hrefs) ==
    IF hrefs = <<>> THEN <<>>
    ELSE IF KeepHref(Head(hrefs))
         THEN <<StripBase(Head(hrefs))>> \o FilterMap(Tail(hrefs))
         ELSE FilterMap(Tail(hrefs))

\* the pages whose links are extracted, and the resources anchors point to,
\* both as base-relative strings
LkDocs == {<<"a", "/">>, <<"a", "/", "p">>}

LkTargets == {<<"a", "/", "p">>, <<"a", "/", "q">>, <<"b", "/">>}

\* the ways an href attribute spells its target
LkKinds == {"absolute", "rooted", "dotdot", "bare", "otherOrigin", "otherPath",
            "mailto", "javascript", "none"}

\* the href attribute text of an anchor of the given kind on a page of
\* directory website/a/
Spell(kind, target) ==
    CASE kind = "absolute" -> BaseUrl \o target
      [] kind = "rooted" -> <<"/", "website", "/">> \o target
      [] kind = "dotdot" -> <<"..", "/">> \o target
      [] kind = "bare" -> SubSeq(target, 3, Len(target))
      [] kind = "otherOrigin" -> <<OtherOrigin, "/", "website", "/">> \o target
      [] kind = "otherPath" -> <<"..", "/", "..", "/", "other", "/">> \o target
      [] kind = "mailto" -> <<"mailto:", "m">>
      [] kind = "javascript" -> <<"javascript:", "v">>
      [] kind = "none" -> Null

\* a bare relative segment can only spell a target of the page's directory
LkAnchorSet == {a \in [kind : LkKinds, target : LkTargets] :
                   a.kind = "bare" => a.target[1] = "a"}

LkInit ==
    /\ lkDoc \in LkDocs
    /\ lkAnchors \in SeqsUpTo(LkAnchorSet, MaxAnchors)
    /\ lkNorm = <<>>
    /\ lkLinks = <<>>
    /\ lkPc = "page"
    /\ LkOthersIdle

\* lines 82-102: page.evaluate over the anchors of the page
LkEvaluate ==
    /\ lkPc = "page"
    /\ LET fullUrl == BaseUrl \o lkDoc
           hrefs == [i \in 1..Len(lkAnchors) |->
                        NormalizeHref(Spell(lkAnchors[i].kind, lkAnchors[i].target),
                                      fullUrl)]
       IN /\ lkNorm' = hrefs
          /\ lkLinks' = FilterMap(hrefs)
    /\ lkPc' = "done"
    /\ UNCHANGED <<lkDoc, lkAnchors>>
    /\ UNCHANGED lkOthers

LkNext == LkEvaluate

SpecLinks == LkInit /\ [][LkNext]_vars

\* kinds whose href resolves to a location under the site base
InSiteKinds == {"absolute", "rooted", "dotdot", "bare"}

\* the links the page should yield: the targets of the in-site anchors
RECURSIVE ExpectedLinks(_)
ExpectedLinks(anchors) ==
    IF anchors = <<>> THEN <<>>
    ELSE IF Head(anchors).kind \in InSiteKinds
         THEN <<Head(anchors).target>> \o ExpectedLinks(Tail(anchors))
         ELSE ExpectedLinks(Tail(anchors))

\* C16: every href that does not resolve to a location under the site base
\* (another origin, another path of the same origin, a mailto: or javascript:
\* href) is dropped, and every link returned is the resolved URL without the
\* site-base prefix: the links of a page are the targets of its in-site
\* anchors, in order.
C16_OnlyInSiteLinks ==
    lkPc = "done" => lkLinks = ExpectedLinks(lkAnchors)

\* C17: two hrefs of the same page that spell the same resource as an
\* absolute URL, a '/'-rooted path, a '../'-relative path or a bare relative
\* segment are normalized to the same base-relative string, the target's.
C17_SpellingsAgree ==
    lkPc = "done"
        => \A i, j \in 1..Len(lkAnchors) :
               (/\ lkAnchors[i].kind \in InSiteKinds
                /\ lkAnchors[j].kind \in InSiteKinds
                /\ lkAnchors[i].target = lkAnchors[j].target)
                   => /\ KeepHref(lkNorm[i]) /\ KeepHref(lkNorm[j])
                      /\ StripBase(lkNorm[i]) = StripBase(lkNorm[j])
                      /\ StripBase(lkNorm[i]) = lkAnchors[i].target

\* a page with a '../'-relative and a bare spelling of a/p: both give a/p
C17_Witness ==
    /\ lkPc = "done"
    /\ Len(lkAnchors) = 2
    /\ lkAnchors[1] = [kind |-> "dotdot", target |-> <<"a", "/", "p">>]
    /\ lkAnchors[2] = [kind |-> "bare", target |-> <<"a", "/", "p">>]
    /\ lkLinks = <<<<"a", "/", "p">>, <<"a", "/", "p">>>>

(***************************************************************************)
(* robust_downloader.js : generateFilename as a function of its arguments  *)
(***************************************************************************)
MaxNameLen == 3   \* longest section name drawn from FnChars

\* characters of section names: letters, digits and others
FnChars == {"a", "Z", "2", "-", "_", " ", "."}

Season2022 == <<"s", "e", "a", "s", "o", "n", "2", "0", "2", "2">>

FnSections == SeqsUpTo(FnChars, MaxNameLen) \cup {Season2022}

\* page numbers: the base page, and pages of one and two decimal digits
FnPages == {0, 1, 5, 12, 30}

FnInit ==
    /\ fnSection \in FnSections
    /\ fnPage \in FnPages
    /\ fnOut = <<>>
    /\ fnPc = "call"
    /\ FnOthersIdle

\* lines 226-229: generateFilename(sectionName, pageNumber) returns
FnGenerate ==
    /\ fnPc = "call"
    /\ fnOut' = GenerateFilename(fnSection, fnPage)
    /\ fnPc' = "done"
    /\ UNCHANGED <<fnSection, fnPage>>
    /\ UNCHANGED fnOthers

FnNext == FnGenerate

SpecFilename == FnInit /\ [][FnNext]_vars

\* the number written by a sequence of decimal digits
RECURSIVE DigitsValue(_)
DigitsValue(d) ==
    IF d = <<>> THEN 0
    ELSE 10 * DigitsValue(SubSeq(d, 1, Len(d) - 1))
         + (CHOOSE k \in 0..9 : Digits[k + 1] = d[Len(d)])

\* C18: generateFilename(section, 0) is the section name with every
\* character outside [a-zA-Z0-9] replaced by '_'; for N # 0 it is that name
\* followed by "_page" and the decimal digits of N; ("season2022", 0) gives
\* "season2022" and ("season2022", 5) gives "season2022_page5".
C18_GenerateFilename ==
    fnPc = "done"
        => LET n == Len(fnSection)
               rest == SubSeq(fnOut, n + 1, Len(fnOut))
           IN /\ Len(fnOut) >= n
              /\ \A i \in 1..n :
                     fnOut[i] = IF fnSection[i] \in AlnumChars
                                THEN fnSection[i] ELSE "_"
              /\ fnPage = 0 => rest = <<>>
              /\ fnPage # 0
                   => /\ Len(rest) > 5
                      /\ SubSeq(rest, 1, 5) = <<"_", "p", "a", "g", "e">>
                      /\ rest[6] # "0"
                      /\ \A i \in 6..Len(rest) :
                             \E k \in 0..9 : Digits[k + 1] = rest[i]
                      /\ DigitsValue(SubSeq(rest, 6, Len(rest))) = fnPage
              /\ (fnSection = Season2022 /\ fnPage = 0) => fnOut = Season2022
              /\ (fnSection = Season2022 /\ fnPage = 5)
                   => fnOut = Season2022 \o <<"_", "p", "a", "g", "e", "5">>

\* generateFilename("a-.", 12) has returned "a___page12"
C18_Witness ==
    /\ fnPc = "done"
    /\ fnSection = <<"a", "-", ".">>
    /\ fnPage = 12
    /\ fnOut = <<"a", "_", "_", "_", "p", "a", "g", "e", "1", "2">>

(***************************************************************************)
(* RobustDownloader: the local paths written into several pages            *)
(***************************************************************************)
\* C19: an image source string that occurs on several downloaded pages is
\* rewritten to the same local path in every written page in which it is
\* rewritten (position i of every page's markup holds the src text i).
C19_SameSrcSamePath ==
    \A f, g \in DOMAIN pageFiles :
        \A i \in 1..MaxImages :
            (/\ i <= Len(pageFiles[f]) /\ i <= Len(pageFiles[g])
             /\ pageFiles[f][i].local /\ pageFiles[g][i].local)
                => pageFiles[f][i] = pageFiles[g][i]

(***************************************************************************)
(* browser_clone.js: main and downloadPage                                 *)
(***************************************************************************)
BcNumPages == 2

BcMaxImages == 2

\* lines 42-75: the page names loadPageMapping returns, each ".html" name
\* turned into a directory-style name; the Set makes them distinct
BcPageName(n) == <<n, "/">>

BcPageLists == {l \in [1..BcNumPages -> {BcPageName(n) : n \in 1..BcNumPages}] :
                   \A i, j \in 1..BcNumPages : i # j => l[i] # l[j]}

\* line 98: pageName.replace(/\/$/, '.html')
LocalFileName(pageName) ==
    IF Len(pageName) > 0 /\ pageName[Len(pageName)] = "/"
    THEN SubSeq(pageName, 1, Len(pageName) - 1) \o <<".html">>
    ELSE pageName

\* line 104: img.src of an img element without a src attribute
EmptySrc == <<>>

\* the banner image every page of the site shows first
Banner == <<"banner">>

\* line 104: the img.src values of a page; shape "full" is the banner followed
\* by images of the page's own, shape "gap" has a src-less img element first
BcShapes == {"none", "full", "gap"}

BcImages(pageName, shape) ==
    IF shape = "none" THEN <<>>
    ELSE [i \in 1..BcMaxImages |->
             IF i = 1 THEN (IF shape = "gap" THEN EmptySrc ELSE Banner)
             ELSE <<pageName, i>>]

\* line 112: `img${index}.gif`, index being the position in the page's list
ImageName(index) == <<"img", index, ".gif">>

\* lines 116-117: what fetching one image does
ImageOutcomes == {"ok", "notOk", "threw"}

\* the outcomes of a page's images: all fetched, or one position failing
BcOutcomes ==
    {[i \in 1..BcMaxImages |-> "ok"]} \cup
    {[i \in 1..BcMaxImages |-> IF i = p THEN o ELSE "ok"] :
        p \in 1..BcMaxImages, o \in {"notOk", "threw"}}

BcAfterImage_rethrow(o) == IF o = "threw" THEN "abort" ELSE "continue"

\* lines 111-125: the try/catch inside the loop body: whatever fetching an
\* image does, the loop goes on with the next image
BcAfterImage(o) == "continue"

\* lines 105-126: the image loop; i is index + 1;
\* st = [mapping, files, downloadedImages, attempted, threw]
RECURSIVE BcDownloadImages(_, _, _, _)
BcDownloadImages(images, i, outcomes, st) ==
    IF i > Len(images) THEN st
    ELSE IF images[i] = EmptySrc
    THEN BcDownloadImages(images, i + 1, outcomes, st)
    ELSE LET src == images[i]
             imageName == ImageName(i - 1)
             st1 == IF outcomes[i] = "ok"
                    THEN [st EXCEPT !.files = MapSet(@, imageName, src),
                                    !.mapping = MapSet(@, src, imageName),
                                    !.downloadedImages = @ + 1,
                                    !.attempted = Append(@, src)]
                    ELSE [st EXCEPT !.attempted = Append(@, src)]
         IN IF BcAfterImage(outcomes[i]) = "abort"
            THEN [st1 EXCEPT !.threw = TRUE]
            ELSE BcDownloadImages(images, i + 1, outcomes, st1)

\* lines 105-106: the state the image loop of a page starts from
BcLoopStart ==
    [mapping |-> <<>>, files |-> bcImageFiles, downloadedImages |-> 0,
     attempted |-> <<>>, threw |-> FALSE]

\* lines 149-159: main has loaded the page list and asks for confirmation
BcInit ==
    /\ BcOthersIdle
    /\ bcPages \in BcPageLists
    /\ bcIdx = 1
    /\ bcPc = "ask"
    /\ bcPageFiles = <<>>
    /\ bcImageFiles = <<>>
    /\ bcMappingFile = [written |-> FALSE, map |-> <<>>]
    /\ bcSuccess = 0
    /\ bcFail = 0
    /\ bcLog = <<>>

\* lines 160-163: any answer but "y" ends main
BcDecline ==
    /\ bcPc = "ask"
    /\ bcPc' = "done"
    /\ UNCHANGED <<bcPages, bcIdx, bcPageFiles, bcImageFiles, bcMappingFile,
                   bcSuccess, bcFail, bcLog>>
    /\ UNCHANGED bcOthers

\* lines 160-174: the answer "y": the browser is launched, the loop begins
BcConfirm ==
    /\ bcPc = "ask"
    /\ bcPc' = "page"
    /\ UNCHANGED <<bcPages, bcIdx, bcPageFiles, bcImageFiles, bcMappingFile,
                   bcSuccess, bcFail, bcLog>>
    /\ UNCHANGED bcOthers

\* lines 176-190: what main does with the value downloadPage returned
BcCount(success, entry) ==
    /\ bcSuccess' = IF success THEN bcSuccess + 1 ELSE bcSuccess
    /\ bcFail' = IF success THEN bcFail ELSE bcFail + 1
    /\ bcLog' = Append(bcLog, entry)
    /\ bcIdx' = bcIdx + 1
    /\ UNCHANGED <<bcPages, bcPc>>

\* lines 83-95, 99, 140-142: the page does not load (no response, a status
\* other than 200, or goto or content throwing): nothing is written
BcPageUnloaded ==
    /\ bcPc = "page"
    /\ bcIdx <= Len(bcPages)
    /\ BcCount(FALSE, [page |-> bcPages[bcIdx], path |-> "unloaded",
                       images |-> <<>>, outcomes |-> <<>>, attempted |-> <<>>,
                       returned |-> FALSE])
    /\ UNCHANGED <<bcPageFiles, bcImageFiles, bcMappingFile>>
    /\ UNCHANGED bcOthers

\* lines 83-138: the page loads, its markup is written, its images are
\* fetched one after the other and image_mapping.json is written
BcPageSaved ==
    /\ bcPc = "page"
    /\ bcIdx <= Len(bcPages)
    /\ \E shape \in BcShapes, outcomes \in BcOutcomes :
         LET pageName == bcPages[bcIdx]
             images == BcImages(pageName, shape)
             st == BcDownloadImages(images, 1, outcomes, BcLoopStart)
         IN /\ bcPageFiles' = MapSet(bcPageFiles, LocalFileName(pageName), pageName)
            /\ bcImageFiles' = st.files
            /\ bcMappingFile' = IF st.threw THEN bcMappingFile
                                ELSE [written |-> TRUE, map |-> st.mapping]
            /\ BcCount(~st.threw,
                       [page |-> pageName, path |-> "saved", images |-> images,
                        outcomes |-> outcomes, attempted |-> st.attempted,
                        returned |-> ~st.threw])
    /\ UNCHANGED bcOthers

\* lines 100-142: the page loads and its markup is written, and then $$eval
\* (stage "eval") or the write of image_mapping.json (stage "mapping") throws
BcPageBroken ==
    /\ bcPc = "page"
    /\ bcIdx <= Len(bcPages)
    /\ \E stage \in {"eval", "mapping"}, shape \in BcShapes, outcomes \in BcOutcomes :
         LET pageName == bcPages[bcIdx]
             images == IF stage = "eval" THEN <<>> ELSE BcImages(pageName, shape)
             st == BcDownloadImages(images, 1, outcomes, BcLoopStart)
         IN /\ bcPageFiles' = MapSet(bcPageFiles, LocalFileName(pageName), pageName)
            /\ bcImageFiles' = st.files
            /\ BcCount(FALSE,
                       [page |-> pageName, path |-> "broken", images |-> images,
                        outcomes |-> outcomes, attempted |-> st.attempted,
                        returned |-> FALSE])
    /\ UNCHANGED bcMappingFile
    /\ UNCHANGED bcOthers

\* lines 176, 192-195: the loop is over, the counts are printed
BcFinish ==
    /\ bcPc = "page"
    /\ bcIdx > Len(bcPages)
    /\ bcPc' = "done"
    /\ UNCHANGED <<bcPages, bcIdx, bcPageFiles, bcImageFiles, bcMappingFile,
                   bcSuccess, bcFail, bcLog>>
    /\ UNCHANGED bcOthers

BcNext == BcDecline \/ BcConfirm \/ BcPageUnloaded \/ BcPageSaved \/ BcPageBroken \/ BcFinish

SpecClone == BcInit /\ [][BcNext]_vars

(***************************************************************************)
(* robust_downloader.js and browser_clone.js: a failing image download     *)
(***************************************************************************)
\* a run of either downloader
ImgInit == DlInit \/ BcInit

ImgNext == DlNext \/ BcNext

SpecImageFailure == ImgInit /\ [][ImgNext]_vars

\* the entries of s that are not the src-less one, in order
NonEmptySrcs(s) == SelectSeq(s, LAMBDA x : x # EmptySrc)

\* the positions 1..k outside failing, in order
RECURSIVE PositionsOutside(_, _, _)
PositionsOutside(i, k, failing) ==
    IF i > k THEN <<>>
    ELSE (IF i \in failing THEN <<>> ELSE <<i>>) \o PositionsOutside(i + 1, k, failing)

\* the number of calls in the log that returned r
ReturnedCount(log, r) == Cardinality({i \in 1..Len(log) : log[i].returned = r})

\* C20: in RobustDownloader and in browser_clone.js downloadPage an image
\* whose download fails (an error or a not-ok response) does not fail the
\* page: every other image of the page is still attempted, the page file is
\* written and the page is counted as downloaded.
C20_ImageFailureKeepsPage ==
    /\ lastDl # <<>> =>
          /\ rOutcome[lastDl.idx] = "ok"
          /\ lastDl.file \in DOMAIN pageFiles
          /\ [i \in 1..Len(lastDl.downloaded) |-> lastDl.downloaded[i].originalSrc]
                = PositionsOutside(1, Len(lastDl.html), lastDl.failing)
          /\ rStats.downloaded = Cardinality({i \in DOMAIN rOutcome : rOutcome[i] = "ok"})
    /\ \A n \in 1..Len(bcLog) :
          bcLog[n].path = "saved" =>
             /\ bcLog[n].returned
             /\ bcLog[n].attempted = NonEmptySrcs(bcLog[n].images)
             /\ LocalFileName(bcLog[n].page) \in DOMAIN bcPageFiles
    /\ bcSuccess = ReturnedCount(bcLog, TRUE)
    /\ bcFail = ReturnedCount(bcLog, FALSE)

\* the first page of a browser_clone run showed the banner and an image of
\* its own, fetching the banner threw, the other image was fetched and the
\* page counts as a success
C20_Witness ==
    /\ Len(bcLog) = 1
    /\ bcLog[1].path = "saved"
    /\ bcLog[1].images = <<Banner, <<bcPages[1], 2>>>>
    /\ bcLog[1].outcomes[1] = "threw"
    /\ bcLog[1].attempted = bcLog[1].images
    /\ bcImageFiles = (ImageName(1) :> <<bcPages[1], 2>>)
    /\ bcSuccess = 1
    /\ bcFail = 0
    /\ LocalFileName(bcPages[1]) \in DOMAIN bcPageFiles

(***************************************************************************)
(* The scripts that drive one shared page: navigations in flight           *)
(***************************************************************************)
NavMaxGotos == 3

\* robust_downloader.js line 13
MaxConcurrency == 3

NavScripts == {"url_discover", "url_tester_formats", "url_tester_paginated",
               "full_url_tester", "part_000", "part_001",
               "comprehensive_url_discovery", "robust_downloader"}

Awaits_notDownloader(script) == script # "robust_downloader"

\* every page.goto of these scripts stands under an await, so the calling
\* function is suspended until the promise settles: url_discover.js:43,
\* url_tester.js:46 and 191, full_url_tester.js:64, part_000:26, part_001:21,
\* comprehensive_url_discovery.js:52, robust_downloader.js:107 and 190 (run
\* awaits downloadPage at line 270 and never reads config.maxConcurrency)
Awaits(script) == TRUE

\* the kinds of navigation a script starts from its loops
NavKinds(script) == IF script = "robust_downloader" THEN {"page", "image"} ELSE {"page"}

NavInit ==
    /\ NavOthersIdle
    /\ navScript \in NavScripts
    /\ navPc = "ready"
    /\ navInFlight = 0
    /\ navBudget \in 1..NavMaxGotos
    /\ navKind = "page"
    /\ navRetries = 0
    /\ navTested = FALSE

\* a loop of the script calls page.goto for its next URL
NavGoto ==
    /\ navPc = "ready"
    /\ navBudget > 0
    /\ \E kind \in NavKinds(navScript) :
         navKind' = kind
    /\ navInFlight' = navInFlight + 1
    /\ navBudget' = navBudget - 1
    /\ navRetries' = 0
    /\ navTested' = FALSE
    /\ navPc' = IF Awaits(navScript) THEN "awaiting" ELSE "ready"
    /\ UNCHANGED navScript
    /\ UNCHANGED navOthers

\* the promise resolves, with or without a response: the script goes on
\* after the await and, in the end, its loop comes to the next URL
NavResolve ==
    /\ navInFlight > 0
    /\ navInFlight' = navInFlight - 1
    /\ navPc' = IF navPc = "awaiting" THEN "ready" ELSE navPc
    /\ navTested' = TRUE
    /\ UNCHANGED <<navScript, navBudget, navKind, navRetries>>
    /\ UNCHANGED navOthers

\* comprehensive_url_discovery.js lines 82-85, robust_downloader.js lines
\* 145-151: the catch clause decides to call the function again after a delay
NavWillRetry ==
    \/ navScript = "comprehensive_url_discovery" /\ navRetries < MaxRetries
    \/ navScript = "robust_downloader" /\ navKind = "page"
         /\ navRetries + 1 < RetryAttempts

\* the promise rejects: the catch clause of the caller runs
NavReject ==
    /\ navInFlight > 0
    /\ navInFlight' = navInFlight - 1
    /\ navPc' = IF navPc # "awaiting" THEN navPc
                ELSE IF NavWillRetry THEN "retryWait" ELSE "ready"
    /\ UNCHANGED <<navScript, navBudget, navKind, navRetries, navTested>>
    /\ UNCHANGED navOthers

\* the delay of the catch clause is over and the function is called again:
\* testUrl returns at once when the URL is in testedUrls (lines 47-49) and
\* navigates otherwise, and the finally clause of the call that retried adds
\* the URL to testedUrls while that navigation is in flight (lines 93-94);
\* downloadPage navigates again
NavRetry ==
    /\ navPc = "retryWait"
    /\ IF navScript = "comprehensive_url_discovery" /\ navTested
       THEN /\ navPc' = "ready"
            /\ UNCHANGED <<navInFlight, navRetries, navTested>>
       ELSE /\ navInFlight' = navInFlight + 1
            /\ navRetries' = navRetries + 1
            /\ navTested' = (navScript = "comprehensive_url_discovery")
            /\ navPc' = IF Awaits(navScript) THEN "awaiting" ELSE "ready"
    /\ UNCHANGED <<navScript, navBudget, navKind>>
    /\ UNCHANGED navOthers

\* the loops are over and nothing is in flight: the browser is closed
NavFinish ==
    /\ navPc = "ready"
    /\ navBudget = 0
    /\ navInFlight = 0
    /\ navPc' = "done"
    /\ UNCHANGED <<navScript, navInFlight, navBudget, navKind, navRetries, navTested>>
    /\ UNCHANGED navOthers

NavNext == NavGoto \/ NavResolve \/ NavReject \/ NavRetry \/ NavFinish

SpecNavigation == NavInit /\ [][NavNext]_vars

\* C21: in every script that drives one shared page at most one navigation
\* is in flight at any moment, and a page.goto starts only when the one
\* before it has resolved or rejected.
C21_OneNavigationInFlight ==
    /\ [](navInFlight <= 1)
    /\ [][navInFlight' > navInFlight => navInFlight = 0]_vars

\* ComprehensiveUrlDiscovery.testUrl has retried a navigation that rejected:
\* the retry is the only navigation in flight
C21_Witness ==
    /\ navScript = "comprehensive_url_discovery"
    /\ navPc = "awaiting"
    /\ navRetries = 1
    /\ navTested
    /\ navInFlight = 1

(***************************************************************************)
(* The files read at startup: comprehensive_url_discovery.js run and       *)
(* robust_downloader.js loadUrls                                           *)
(***************************************************************************)
MaxEntries == 1

\* JSON values
JsNull == [t |-> "null"]

JsUndefined == [t |-> "undefined"]

JsNumber == [t |-> "num"]

JsString(s) == [t |-> "str", s |-> s]

JsArray(items) == [t |-> "arr", items |-> items]

JsObject(fields) == [t |-> "obj", fields |-> fields]

\* what is on disk under a file name
Missing == [kind |-> "missing"]

Unparsable == [kind |-> "unparsable"]

JsonFile(v) == [kind |-> "json", value |-> v]

\* JSON.parse(await fs.readFile(name, 'utf8'))
ReadJson(file) ==
    IF file.kind = "json" THEN [threw |-> FALSE, value |-> file.value]
    ELSE [threw |-> TRUE, value |-> JsUndefined]

\* the property access v.name: a TypeError on null and undefined
Prop(v, name) ==
    IF v.t \in {"null", "undefined"} THEN [threw |-> TRUE, value |-> JsUndefined]
    ELSE IF v.t = "obj" /\ name \in DOMAIN v.fields
    THEN [threw |-> FALSE, value |-> v.fields[name]]
    ELSE [threw |-> FALSE, value |-> JsUndefined]

Truthy(v) == v.t \notin {"null", "undefined"}

\* comprehensive_url_discovery.js line 354: the forEach over
\* existing.workingUrls, which stops at the first entry whose url.url throws
RECURSIVE AddTested(_, _, _)
AddTested(items, i, tested) ==
    IF i > Len(items) THEN tested
    ELSE IF Prop(items[i], "url").threw THEN tested
    ELSE AddTested(items, i + 1, tested \cup {Prop(items[i], "url").value})

\* comprehensive_url_discovery.js lines 351-359: the try/catch around the load
\* of the existing results; the value is testedUrls after it
LoadTested(file) ==
    LET existing == ReadJson(file)
        wu == Prop(existing.value, "workingUrls")
    IN IF existing.threw \/ wu.threw THEN {}
       ELSE IF ~Truthy(wu.value) THEN {}
       ELSE IF wu.value.t # "arr" THEN {}
       ELSE AddTested(wu.value.items, 1, {})

\* robust_downloader.js lines 80-86: one entry of the fallback list
FallbackEntry(url) ==
    [sectionName |-> IF Truthy(Prop(url, "baseName").value)
                     THEN Prop(url, "baseName").value ELSE JsString("unknown"),
     url |-> Prop(url, "workingUrl").value,
     pageNumber |-> 0]

\* robust_downloader.js lines 77-91: the fallback branch; threw stands for
\* the return of the inner catch clause
LoadFallback(file) ==
    LET data == ReadJson(file)
        wu == Prop(data.value, "workingUrls")
        arr == IF Truthy(wu.value) THEN wu.value ELSE JsArray(<<>>)
    IN IF data.threw \/ wu.threw \/ arr.t # "arr"
          \/ \E i \in 1..Len(arr.items) : Prop(arr.items[i], "baseName").threw
       THEN [threw |-> TRUE, urls |-> <<>>]
       ELSE [threw |-> FALSE,
             urls |-> [i \in 1..Len(arr.items) |-> FallbackEntry(arr.items[i])]]

LoadUrls_noFallback(file1, file2) ==
    LET data == ReadJson(file1)
        au == Prop(data.value, "allUrls")
    IN IF data.threw \/ au.threw THEN [urls |-> <<>>, totalUrls |-> 0]
       ELSE LET allUrls == IF Truthy(au.value) THEN au.value.items ELSE <<>>
            IN [urls |-> allUrls, totalUrls |-> Len(allUrls)]

\* robust_downloader.js lines 67-97: loadUrls; the value is the list returned
\* and stats.totalUrls, which the early return of line 91 leaves at 0
LoadUrls(file1, file2) ==
    LET data == ReadJson(file1)
        au == Prop(data.value, "allUrls")
    IN IF data.threw \/ au.threw
       THEN LET fb == LoadFallback(file2)
            IN IF fb.threw THEN [urls |-> <<>>, totalUrls |-> 0]
               ELSE [urls |-> fb.urls, totalUrls |-> Len(fb.urls)]
       ELSE LET allUrls == IF Truthy(au.value) THEN au.value.items ELSE <<>>
            IN [urls |-> allUrls, totalUrls |-> Len(allUrls)]

\* the arrays of at most MaxEntries entries
ArraysOf(entries) ==
    {JsArray(s) : s \in UNION {[1..n -> entries] : n \in 0..MaxEntries}}

\* what config.outputFile of ComprehensiveUrlDiscovery may hold
CheckpointFiles ==
    {Missing, Unparsable, JsonFile(JsNull), JsonFile(JsObject(<<>>)),
     JsonFile(JsObject([workingUrls |-> JsNumber]))} \cup
    {JsonFile(JsObject([workingUrls |-> a])) :
        a \in ArraysOf({JsObject([url |-> JsString("u1")]),
                        JsObject([url |-> JsString("u2")]),
                        JsObject(<<>>), JsNull})}

\* what config.urlsFile may hold
UrlsFiles ==
    {Missing, Unparsable, JsonFile(JsNull), JsonFile(JsObject(<<>>))} \cup
    {JsonFile(JsObject([allUrls |-> a])) :
        a \in ArraysOf({[sectionName |-> JsString("s1"), url |-> JsString("u1"),
                         pageNumber |-> 1]})}

\* what config.fallbackUrlsFile may hold
FallbackFiles ==
    {Missing, Unparsable, JsonFile(JsNull), JsonFile(JsObject(<<>>)),
     JsonFile(JsObject([workingUrls |-> JsNumber]))} \cup
    {JsonFile(JsObject([workingUrls |-> a])) :
        a \in ArraysOf({JsObject([baseName |-> JsString("s1"),
                                  workingUrl |-> JsString("u1")]),
                        JsObject([workingUrl |-> JsString("u2")]),
                        JsNull})}

StInit ==
    /\ StOthersIdle
    /\ \/ /\ stScript = "comprehensive_url_discovery"
          /\ stFile1 \in CheckpointFiles
          /\ stFile2 = Missing
       \/ /\ stScript = "robust_downloader"
          /\ stFile1 \in UrlsFiles
          /\ stFile2 \in FallbackFiles
    /\ stPc = "start"
    /\ stTested = {}
    /\ stUrls = <<>>
    /\ stTotalUrls = 0

\* comprehensive_url_discovery.js lines 347-362: run loads the existing
\* results and goes on to the discovery phases
StComprehensiveRun ==
    /\ stPc = "start"
    /\ stScript = "comprehensive_url_discovery"
    /\ stTested' = LoadTested(stFile1)
    /\ stPc' = "phases"
    /\ UNCHANGED <<stScript, stFile1, stFile2, stUrls, stTotalUrls>>
    /\ UNCHANGED stOthers

\* robust_downloader.js lines 257-266: run calls loadUrls and returns when
\* the list is empty
StDownloaderRun ==
    /\ stPc = "start"
    /\ stScript = "robust_downloader"
    /\ LET r == LoadUrls(stFile1, stFile2)
       IN /\ stUrls' = r.urls
          /\ stTotalUrls' = r.totalUrls
          /\ stPc' = IF Len(r.urls) = 0 THEN "noUrls" ELSE "downloading"
    /\ UNCHANGED <<stScript, stFile1, stFile2, stTested>>
    /\ UNCHANGED stOthers

StNext == StComprehensiveRun \/ StDownloaderRun

SpecStartup == StInit /\ [][StNext]_vars

\* the files whose read or parse throws
Broken == {Missing, Unparsable}

\* C22: a missing or malformed file at startup counts as no prior state and
\* does not abort the run: ComprehensiveUrlDiscovery.run goes on to its
\* phases with an empty testedUrls, RobustDownloader.loadUrls reads the
\* fallback file instead and returns an empty list when that is unreadable too.
C22_BrokenFileIsNoState ==
    /\ []((stPc = "phases" /\ stFile1 \in Broken) => stTested = {})
    /\ []((stPc \in {"noUrls", "downloading"} /\ stFile1 \in Broken) =>
             /\ stFile2 \in Broken => (stUrls = <<>> /\ stPc = "noUrls")
             /\ stFile2 \notin Broken =>
                   /\ stUrls = LoadFallback(stFile2).urls
                   /\ stTotalUrls = Len(stUrls))
    /\ [][stPc = "start" =>
            stPc' = IF stScript = "comprehensive_url_discovery" THEN "phases"
                    ELSE IF stUrls' = <<>> THEN "noUrls" ELSE "downloading"]_vars

\* loadUrls found urlsFile unparsable and returned the one entry of the
\* fallback file
C22_Witness ==
    /\ stScript = "robust_downloader"
    /\ stPc = "downloading"
    /\ stFile1 = Unparsable
    /\ stUrls = <<[sectionName |-> JsString("s1"), url |-> JsString("u1"),
                   pageNumber |-> 0]>>
    /\ stTotalUrls = 1

(***************************************************************************)
(* url_discover.js: what the snapshot holds                                *)
(***************************************************************************)
\* C23: when url_discover.js has terminated, the snapshot written last holds
\* every URL that was fetched or queued during the run, the seeds included.
C23_FinalSnapshotHasAll ==
    dPc = "done" =>
        Range(gotoLog) \cup Range(firstQueued) \subseteq Range(savedUrls)

(***************************************************************************)
(* url_discover.js on a site large enough for the periodic save            *)
(***************************************************************************)
ChainLen == 12

\* the site: every page links to the next few URLs no page linked to before
ChainLinks(k) == [i \in 1..k |-> 1 + Len(discoveredUrls) + i]

ChainInit ==
    /\ DiscOthersIdle
    /\ startUrls = <<1>>
    /\ urlQueue = startUrls
    /\ visitedUrls = {}
    /\ discoveredUrls = <<>>
    /\ savedUrls = <<>>
    /\ dPc = "loop"
    /\ gotoLog = <<>>
    /\ firstQueued = Dedup(startUrls)
    /\ lastLinks = <<>>

\* lines 30-122: one iteration whose page shows k links to new URLs
ChainProcessPage ==
    /\ dPc = "loop"
    /\ LoopGoesOn(urlQueue)
    /\ ~ShouldSkip(Head(urlQueue))
    /\ \E k \in 0..MaxLinks :
         /\ 1 + Len(discoveredUrls) + k <= ChainLen
         /\ LET links == ChainLinks(k)
                currentUrl == Head(urlQueue)
                visited == visitedUrls \cup {currentUrl}
                st == AddLinks(links,
                               [q |-> Tail(urlQueue), disc |-> discoveredUrls,
                                fq |-> firstQueued],
                               visited)
            IN /\ visitedUrls' = visited
               /\ gotoLog' = Append(gotoLog, currentUrl)
               /\ urlQueue' = st.q
               /\ discoveredUrls' = st.disc
               /\ firstQueued' = st.fq
               /\ lastLinks' = links
               /\ savedUrls' = PeriodicSave(st.disc, savedUrls)
    /\ UNCHANGED <<startUrls, dPc>>
    /\ UNCHANGED discOthers

ChainNext == ChainProcessPage \/ DiscProcessError \/ DiscFinish

SpecDiscoverChain == ChainInit /\ [][ChainNext]_vars

\* C24: the snapshot is written every 10 discovered URLs: when a page makes
\* the number of discovered URLs reach or pass a multiple of 10, they are
\* written before the next URL is fetched, so that at the start of a fetch
\* the snapshot lags the discovered URLs by fewer than 10.
C24_SnapshotLagBelowTen ==
    dPc = "loop" => Len(discoveredUrls) - Len(savedUrls) < DiscSaveEvery

(***************************************************************************)
(* complete-chiswick-site/download_images.js: downloadImage                *)
(***************************************************************************)
DiNumImages == 3

\* line 8
RETRY_ATTEMPTS == 3

DiInit ==
    /\ DiOthersIdle
    /\ diPc = "attempt"
    /\ diIdx = 1
    /\ diI = 0
    /\ diTries = 0
    /\ diLog = <<>>

\* lines 73-81: the caller of downloadImage logs the outcome and the next
\* image of the list is handled
DiDone(entry) ==
    /\ diLog' = Append(diLog, entry)
    /\ diI' = 0
    /\ diTries' = 0
    /\ IF diIdx < DiNumImages
       THEN diIdx' = diIdx + 1 /\ diPc' = "attempt"
       ELSE diIdx' = diIdx /\ diPc' = "done"

\* line 38: i < attempts - 1
DiCatchRetries(i) == i < RETRY_ATTEMPTS - 1

\* lines 16-42: createWriteStream or https.get throws synchronously inside
\* the try block (an invalid URL, say): the catch clause sleeps and lets the
\* loop go on, or rethrows on the last pass
DiThrowInTry ==
    /\ diPc = "attempt"
    /\ IF DiCatchRetries(diI)
       THEN /\ diPc' = "sleep"
            /\ diTries' = diTries + 1
            /\ UNCHANGED <<diIdx, diI, diLog>>
       ELSE DiDone([tries |-> diTries + 1, requested |-> FALSE, result |-> "failed"])
    /\ UNCHANGED diOthers

\* lines 39, 15: sleep(RETRY_DELAY), then i++
DiSleep ==
    /\ diPc = "sleep"
    /\ diPc' = "attempt"
    /\ diI' = diI + 1
    /\ UNCHANGED <<diIdx, diTries, diLog>>
    /\ UNCHANGED diOthers

\* lines 17-35: the try block builds the promise and returns it: the request
\* is under way and downloadImage has returned
DiReturnPromise ==
    /\ diPc = "attempt"
    /\ diPc' = "pending"
    /\ diTries' = diTries + 1
    /\ UNCHANGED <<diIdx, diI, diLog>>
    /\ UNCHANGED diOthers

\* lines 26-29: the response has status 200 and the file is finished
DiResolve ==
    /\ diPc = "pending"
    /\ DiDone([tries |-> diTries, requested |-> TRUE, result |-> "ok"])
    /\ UNCHANGED diOthers

\* lines 20-23, 31-34: a status other than 200 or a network error rejects
\* the returned promise; the rejection reaches the caller of downloadImage
DiRejectPromise ==
    /\ diPc = "pending"
    /\ DiDone([tries |-> diTries, requested |-> TRUE, result |-> "failed"])
    /\ UNCHANGED diOthers

DiNext == DiThrowInTry \/ DiSleep \/ DiReturnPromise \/ DiResolve \/ DiRejectPromise

SpecDownloadImage == DiInit /\ [][DiNext]_vars

\* C25: downloadImage makes up to RETRY_ATTEMPTS attempts for one image and
\* reports failure to its caller only after the third attempt has failed.
C25_FailureAfterThirdAttempt ==
    \A n \in 1..Len(diLog) :
        diLog[n].result = "failed" => diLog[n].tries = RETRY_ATTEMPTS

(***************************************************************************)
(* ComprehensiveUrlDiscovery: retries, counters, skipped pages             *)
(***************************************************************************)
\* C26: testUrl retries a navigation that raised an error up to MaxRetries
\* more times: when it gives up a URL after a navigation that raised an
\* error, the URL has been navigated to exactly MaxRetries + 1 = 4 times.
C26_FourNavigationsThenGiveUp ==
    (/\ cPc = "ret"
     /\ siteLast = "throw"
     /\ cGotoLog # <<>>
     /\ cGotoLog[Len(cGotoLog)] = cUrl)
        => Count(cGotoLog, cUrl) = MaxRetries + 1

\* C27: on a fresh run, whenever a top-level testUrl call has completed,
\* stats.totalTested is the number of distinct URLs in testedUrls and equals
\* stats.working + stats.failed, stats.working is the length of workingUrls
\* and stats.failed the length of failedUrls.
C27_CountersAgree ==
    (loadedUrls = {} /\ cPc \in {"ret", "call", "final", "done"})
        => /\ cStats.totalTested = Cardinality(testedUrls)
           /\ cStats.totalTested = cStats.working + cStats.failed
           /\ cStats.working = Len(workingUrls)
           /\ cStats.failed = Len(cFailedUrls)

\* C28: in testPaginationForSection a page URL that testUrl skips because it
\* is in testedUrls from the loaded snapshot does not increment
\* consecutiveFailures and does not end the probing of the section: the
\* loop goes on to the next page with the count unchanged.
C28_SkippedPageNotAFailure ==
    [][(/\ cPc = "ret"
        /\ cPag > 0
        /\ cPag < MaxPaginationTest
        /\ CudUrl(cPhase, cItem, cPag) \in loadedUrls)
           => /\ cConsec' = cConsec
              /\ cPag' = cPag + 1
              /\ cPc' = "call"]_vars

(***************************************************************************)
(* RobustDownloader.run: the counters                                      *)
(***************************************************************************)
\* the list entries run has finished with
Handled == {i \in DOMAIN rOutcome : rOutcome[i] # "pending"}

\* C29: after each URL of the list has been handled, stats.downloaded +
\* stats.failed is the number of entries handled so far, each entry having
\* incremented exactly one of the two counters once whatever its retries;
\* failedUrls has stats.failed entries; at the end of the run
\* stats.downloaded + stats.failed = stats.totalUrls.
C29_CountersPartitionList ==
    /\ rStats.downloaded + rStats.failed = Cardinality(Handled)
    /\ rStats.downloaded = Cardinality({i \in Handled : rOutcome[i] = "ok"})
    /\ rStats.failed = Cardinality({i \in Handled : rOutcome[i] = "failed"})
    /\ Len(rFailedUrls) = rStats.failed
    /\ rPc \in {"final", "done"} =>
          rStats.downloaded + rStats.failed = rStats.totalUrls

\* a finished run of three URLs: the first was given up after RetryAttempts
\* attempts, the second was downloaded at its second attempt, the third at
\* its first
C29_Witness ==
    /\ rPc = "done"
    /\ rAttempts = <<RetryAttempts, 2, 1>>
    /\ rOutcome = <<"failed", "ok", "ok">>
    /\ rStats.downloaded = 2
    /\ rStats.failed = 1

(***************************************************************************)
(* RobustDownloader: where a rewritten reference points                    *)
(***************************************************************************)
\* C30: every image reference rewritten in a written page points to the
\* local file downloaded from the absolute URL the reference resolves to on
\* that page, also when pages in different directories use the same relative
\* src text for different images (position i of a page's markup holds the
\* src text i; stated for the page written last).
C30_RewrittenPointsToOwnImage ==
    lastDl # <<>> =>
        \A i \in 1..Len(pageFiles[lastDl.file]) :
            pageFiles[lastDl.file][i].local =>
                pageFiles[lastDl.file][i].of
                    = Resolve(urlList[lastDl.idx].sectionName, i)

(***************************************************************************)
(* browser_clone.js: the image files and image_mapping.json after a run    *)
(***************************************************************************)
\* the images a call of downloadPage fetched and wrote: [src, name]
BcDownloaded(entry) ==
    {[src |-> entry.images[i], name |-> ImageName(i - 1)] :
        i \in {j \in 1..Len(entry.images) :
                  /\ entry.images[j] # EmptySrc
                  /\ entry.outcomes[j] = "ok"
                  /\ Includes(entry.attempted, entry.images[j])}}

\* C31: over a run of several pages, images downloaded from distinct source
\* URLs lie in distinct local files, none overwritten by a later one, and
\* after the run image_mapping.json maps every source downloaded during the
\* run to its local file (stated for the runs in which every page loaded and
\* no write threw).
C31_ImagesKeptAndMapped ==
    (bcPc = "done" /\ \A n \in 1..Len(bcLog) : bcLog[n].path = "saved") =>
        \A n \in 1..Len(bcLog) :
            \A d \in BcDownloaded(bcLog[n]) :
                /\ d.name \in DOMAIN bcImageFiles
                /\ bcImageFiles[d.name] = d.src
                /\ bcMappingFile.written
                /\ d.src \in DOMAIN bcMappingFile.map
                /\ bcMappingFile.map[d.src] = d.name

(***************************************************************************)
(* complete-chiswick-site/download_images.js: downloadMissingImages        *)
(***************************************************************************)
BtNumImages == 6

\* line 69
batchSize == 5

BtImage(d, b) == [dir |-> d, base |-> b]

\* what a target path holds: nothing, an empty file, or the bytes of an image
FileAbsent == [kind |-> "absent"]

FileEmpty == [kind |-> "empty"]

FileOf(img) == [kind |-> "image", img |-> img]

\* line 62: path.join(IMAGES_DIR, path.basename(img))
BtPath(img) == img.base

\* lines 58-63: the lists of missing images: images of one directory, the
\* same with the second image being a namesake of the first in another
\* directory, and the same with the last image being such a namesake
BtLists ==
    LET plain == [i \in 1..BtNumImages |-> BtImage("d1", i)]
    IN {plain,
        [plain EXCEPT ![2] = BtImage("d2", 1)],
        [plain EXCEPT ![BtNumImages] = BtImage("d2", 1)]}

\* line 71: missingImages.slice(i, i + batchSize), as list positions
BtBatch(i) == {n \in 1..Len(btImages) : i <= n /\ n < i + batchSize}

BtInFlight == {n \in 1..Len(btImages) : btState[n] = "inflight"}

BtSettled(n) == btState[n] \in {"ok", "failed"}

WrapperRejects_onFailure(state) == state = "failed"

\* lines 74-80: the callback handed to batch.map catches what downloadImage
\* throws, so the promise it returns is never rejected
WrapperRejects(state) == FALSE

BtInit ==
    /\ BtOthersIdle
    /\ btImages \in BtLists
    /\ btPc = "batch"
    /\ btI = 1
    /\ btState = [n \in 1..BtNumImages |-> "waiting"]
    /\ btFiles = [p \in {BtPath(btImages[n]) : n \in 1..BtNumImages} |-> FileAbsent]

\* lines 70-82, 18-20: batch.map calls the callback for every image of the
\* batch; each call runs downloadImage up to its request, createWriteStream
\* having created or emptied the file
BtStartBatch ==
    /\ btPc = "batch"
    /\ btState' = [n \in 1..Len(btImages) |->
                      IF n \in BtBatch(btI) THEN "inflight" ELSE btState[n]]
    /\ btFiles' = [p \in DOMAIN btFiles |->
                      IF \E n \in BtBatch(btI) : BtPath(btImages[n]) = p
                      THEN FileEmpty ELSE btFiles[p]]
    /\ btPc' = "await"
    /\ UNCHANGED <<btImages, btI>>
    /\ UNCHANGED btOthers

\* lines 25-29: status 200, the response is piped into the file
BtFinish ==
    /\ \E n \in BtInFlight :
         /\ btState' = [btState EXCEPT ![n] = "ok"]
         /\ btFiles' = [btFiles EXCEPT ![BtPath(btImages[n])] = FileOf(btImages[n])]
    /\ UNCHANGED <<btImages, btPc, btI>>
    /\ UNCHANGED btOthers

\* lines 21-24: a status other than 200 rejects the promise and returns
BtBadStatus ==
    /\ \E n \in BtInFlight :
         btState' = [btState EXCEPT ![n] = "failed"]
    /\ UNCHANGED <<btImages, btPc, btI, btFiles>>
    /\ UNCHANGED btOthers

\* lines 31-34: the request emits an error: the file is unlinked and the
\* promise rejected
BtRequestError ==
    /\ \E n \in BtInFlight :
         /\ btState' = [btState EXCEPT ![n] = "failed"]
         /\ btFiles' = [btFiles EXCEPT ![BtPath(btImages[n])] = FileAbsent]
    /\ UNCHANGED <<btImages, btPc, btI>>
    /\ UNCHANGED btOthers

\* lines 70-87: the await of Promise.all is over: all promises of the batch
\* are fulfilled, or one of them is rejected and downloadMissingImages throws
BtAwaitOver ==
    /\ btPc = "await"
    /\ LET rejected == \E n \in BtBatch(btI) :
                          BtSettled(n) /\ WrapperRejects(btState[n])
       IN /\ rejected \/ \A n \in BtBatch(btI) : BtSettled(n)
          /\ IF rejected
             THEN btPc' = "aborted" /\ btI' = btI
             ELSE IF btI + batchSize <= Len(btImages)
             THEN btPc' = "batch" /\ btI' = btI + batchSize
             ELSE btPc' = "done" /\ btI' = btI
    /\ UNCHANGED <<btImages, btState, btFiles>>
    /\ UNCHANGED btOthers

BtNext == BtStartBatch \/ BtFinish \/ BtBadStatus \/ BtRequestError \/ BtAwaitOver

SpecBatches == BtInit /\ [][BtNext]_vars

\* C32: images are processed in batches of 5: at most 5 downloads are in
\* flight, no download of a batch starts before every download of the batch
\* before it has settled, and a failed download neither cancels the other
\* downloads of its batch nor keeps later batches from running.
C32_BatchesOfFive ==
    /\ [](/\ Cardinality(BtInFlight) <= batchSize
          /\ \A n \in BtInFlight : \A m \in 1..Len(btImages) :
                 m < btI => BtSettled(m)
          /\ BtInFlight \subseteq BtBatch(btI)
          /\ btPc # "aborted"
          /\ btPc = "done" => \A n \in 1..Len(btImages) : BtSettled(n))
    /\ [][\A n \in BtInFlight :
             (\E m \in BtInFlight : btState'[m] = "failed")
                 => btState'[n] \in {"inflight", "failed"}]_vars

\* the run is over: the first download failed, every other image of its
\* batch and the image of the second batch were downloaded
C32_Witness ==
    /\ btPc = "done"
    /\ btState[1] = "failed"
    /\ \A n \in 2..BtNumImages : btState[n] = "ok"
    /\ btI = batchSize + 1

\* C33: no two downloads in flight at the same time write to the same local
\* file path, whatever the list of missing images, images of different
\* directories with one basename included.
C33_NoSharedPathInFlight ==
    \A n, m \in BtInFlight :
        n # m => BtPath(btImages[n]) # BtPath(btImages[m])

\* C34: when a download has failed, by a request error or by a status other
\* than 200, no file is left at its target path (stated for the images whose
\* path no other image of the list shares).
C34_NoFileAfterFailure ==
    \A n \in 1..Len(btImages) :
        (/\ btState[n] = "failed"
         /\ \A m \in 1..Len(btImages) :
                m # n => BtPath(btImages[m]) # BtPath(btImages[n]))
            => btFiles[BtPath(btImages[n])] = FileAbsent

(***************************************************************************)
(* complete-chiswick-site/compare_sites.js: loadPageWithRetry              *)
(***************************************************************************)
LpNumCalls == 3

\* compare_sites.js line 7: RETRY_ATTEMPTS
CS_RETRY_ATTEMPTS == 3

LpInit ==
    /\ LpOthersIdle
    /\ lpPc = "attempt"
    /\ lpCall = 1
    /\ lpI = 0
    /\ lpEvents = <<>>
    /\ lpLog = <<>>

\* lines 22, 31: the call returns and comparePages goes on to its next call
LpReturn(events, result) ==
    /\ lpLog' = Append(lpLog, [events |-> events, result |-> result])
    /\ lpEvents' = <<>>
    /\ lpI' = 0
    /\ IF lpCall < LpNumCalls
       THEN lpCall' = lpCall + 1 /\ lpPc' = "attempt"
       ELSE lpCall' = lpCall /\ lpPc' = "done"

SleepsAfter_always(i) == TRUE

\* line 25: i < attempts - 1
SleepsAfter(i) == i < CS_RETRY_ATTEMPTS - 1

\* lines 15-22: page.goto resolves: return true
LpGotoOk ==
    /\ lpPc = "attempt"
    /\ LpReturn(Append(lpEvents, "ok"), TRUE)
    /\ UNCHANGED lpOthers

\* lines 15-31: page.goto rejects: with passes left the catch clause is
\* about to sleep, otherwise the loop condition ends the loop after i++ and
\* the function returns false
LpGotoFail ==
    /\ lpPc = "attempt"
    /\ IF SleepsAfter(lpI)
       THEN /\ lpPc' = "delay"
            /\ lpEvents' = Append(lpEvents, "fail")
            /\ UNCHANGED <<lpCall, lpI, lpLog>>
       ELSE LpReturn(Append(lpEvents, "fail"), FALSE)
    /\ UNCHANGED lpOthers

\* lines 26, 15: sleep(RETRY_DELAY), i++, and the loop condition
LpDelay ==
    /\ lpPc = "delay"
    /\ IF lpI + 1 < CS_RETRY_ATTEMPTS
       THEN /\ lpPc' = "attempt"
            /\ lpI' = lpI + 1
            /\ lpEvents' = Append(lpEvents, "sleep")
            /\ UNCHANGED <<lpCall, lpLog>>
       ELSE LpReturn(Append(lpEvents, "sleep"), FALSE)
    /\ UNCHANGED lpOthers

LpNext == LpGotoOk \/ LpGotoFail \/ LpDelay

SpecLoadPage == LpInit /\ [][LpNext]_vars

\* C35: loadPageWithRetry navigates at most 3 times, returns true at the
\* first attempt that succeeds and makes no attempt after it, returns false
\* when all 3 attempts have failed, and sleeps RETRY_DELAY between attempts
\* only, not after the last one.
C35_LoadPageWithRetry ==
    \A n \in 1..Len(lpLog) :
        \/ lpLog[n].result /\ lpLog[n].events \in
              {<<"ok">>, <<"fail", "sleep", "ok">>,
               <<"fail", "sleep", "fail", "sleep", "ok">>}
        \/ ~lpLog[n].result /\ lpLog[n].events =
              <<"fail", "sleep", "fail", "sleep", "fail">>

\* three calls are over: one loaded at once, one at its third attempt, one
\* failed three times
C35_Witness ==
    /\ lpPc = "done"
    /\ lpLog = <<[events |-> <<"ok">>, result |-> TRUE],
                 [events |-> <<"fail", "sleep", "fail", "sleep", "ok">>,
                  result |-> TRUE],
                 [events |-> <<"fail", "sleep", "fail", "sleep", "fail">>,
                  result |-> FALSE]>>

(***************************************************************************)
(* url_discover.js: termination                                            *)
(***************************************************************************)
FairNumUrls == 3

FairMaxSeeds == 2

FairMaxLinks == 1

FairUrls == 1..FairNumUrls

FairInit ==
    /\ DiscOthersIdle
    /\ startUrls \in SeqsUpTo(FairUrls, FairMaxSeeds) \ {<<>>}
    /\ urlQueue = startUrls
    /\ visitedUrls = {}
    /\ discoveredUrls = <<>>
    /\ savedUrls = <<>>
    /\ dPc = "loop"
    /\ gotoLog = <<>>
    /\ firstQueued = Dedup(startUrls)
    /\ lastLinks = <<>>

\* lines 30-122: one iteration whose page.goto and evaluate succeed
FairProcessPage ==
    /\ dPc = "loop"
    /\ LoopGoesOn(urlQueue)
    /\ ~ShouldSkip(Head(urlQueue))
    /\ \E links \in SeqsUpTo(FairUrls, FairMaxLinks) :
         LET currentUrl == Head(urlQueue)
             visited == visitedUrls \cup {currentUrl}
             st == AddLinks(links,
                            [q |-> Tail(urlQueue), disc |-> discoveredUrls,
                             fq |-> firstQueued],
                            visited)
         IN /\ visitedUrls' = visited
            /\ gotoLog' = Append(gotoLog, currentUrl)
            /\ urlQueue' = st.q
            /\ discoveredUrls' = st.disc
            /\ firstQueued' = st.fq
            /\ lastLinks' = links
            /\ savedUrls' = PeriodicSave(st.disc, savedUrls)
    /\ UNCHANGED <<startUrls, dPc>>
    /\ UNCHANGED discOthers

FairNext == DiscSkipVisited \/ FairProcessPage \/ DiscProcessError \/ DiscFinish

\* the loop of discoverUrls keeps running while it can
SpecDiscoverFair == FairInit /\ [][FairNext]_vars /\ WF_vars(FairNext)

\* C36: on a finite site discoverUrls terminates, and by then every URL
\* that was ever placed on urlQueue has been fetched exactly once, also when
\* fetches raise errors: an errored URL stays visited and is not fetched
\* again.
C36_TerminatesAllFetchedOnce ==
    /\ <>(dPc = "done")
    /\ [](dPc = "done" =>
            \A u \in Range(startUrls) \cup Range(firstQueued) :
                Count(gotoLog, u) = 1)
    /\ [](lastLinks = Errored =>
            /\ gotoLog[Len(gotoLog)] \in visitedUrls
            /\ Count(gotoLog, gotoLog[Len(gotoLog)]) = 1)
    /\ [][lastLinks' = Errored /\ gotoLog' # gotoLog =>
            /\ urlQueue' = Tail(urlQueue)
            /\ discoveredUrls' = discoveredUrls]_vars

\* a finished run from the seeds [1, 1]: the fetch of 1 found the link 2,
\* the fetch of 2 raised an error, and the duplicate seed was skipped
C36_Witness ==
    /\ dPc = "done"
    /\ startUrls = <<1, 1>>
    /\ gotoLog = <<1, 2>>
    /\ lastLinks = Errored
    /\ discoveredUrls = <<2>>

(***************************************************************************)
(* robust_downloader.js: one page file per list entry                      *)
(***************************************************************************)
\* lines 100, 122: the pair a page file's name is derived from
PageKey(urlData) == <<urlData.sectionName, urlData.pageNumber>>

\* line 123: the page files written so far, by name
PageFileNames == DOMAIN pageFiles

\* C37: list entries with different (sectionName, pageNumber) pairs are
\* written to different page files: there are as many page files as there
\* are different pairs among the downloaded entries.
C37_DistinctPagesDistinctFiles ==
    Cardinality(PageFileNames) =
        Cardinality({PageKey(urlList[i]) :
                        i \in {j \in 1..Len(urlList) : rOutcome[j] = "ok"}})

(***************************************************************************)
(* part_000, part_001: the flat page list and the page count of a snapshot *)
(***************************************************************************)
\* part_000 lines 141-149, part_001 lines 77-83, 108-111: the flat list of a
\* snapshot holds the pages of its sections, section by section
FlatIsConcatenation(snap) == snap.flat = FlattenSections(snap.sections)

\* part_000 line 91, part_001 line 114: the page counter of a snapshot is
\* the length of its flat list
CountIsFlatLength(snap) == snap.summary.totalPagesFound = Len(snap.flat)

\* every snapshot's flat list is the concatenation of its sections' pages
AllFlatConcatenated == \A k \in 1..Len(pSaved) : FlatIsConcatenation(pSaved[k])

\* C38: in every snapshot written by the section probers the flat page list
\* is the concatenation of the pages of the snapshot's sections, and
\* summary.totalPagesFound is the number of records in that list.
C38_FlatListMatchesSummary ==
    \A k \in 1..Len(pSaved) :
        /\ FlatIsConcatenation(pSaved[k])
        /\ CountIsFlatLength(pSaved[k])
====
